---------------------------- MODULE Spec2Model ----------------------------
(***************************************************************************)
(* A model of the DICOM Part 10 reader (read_dicom), its dictionary        *)
(* lookups and the Dataset container.                                      *)
(*                                                                         *)
(* Bytes are integers 0..255.  A Rust String / &str is modelled by the     *)
(* sequence of its UTF-8 bytes, a Vec<u8> by the sequence of its bytes.    *)
(* Option<T> is modelled by a sequence: None is <<>>, Some(v) is <<v>>.    *)
(* Sequences are 1-based here and 0-based in the source: the cursor `off` *)
(* keeps the source's 0-based value, so byte `buf[off]` of the source is   *)
(* b[off + 1] in the model.                                                *)
(***************************************************************************)
EXTENDS Integers, Sequences, FiniteSets, TLC

None == <<>>
Some(v) == <<v>>
IsSome(o) == Len(o) = 1
Unwrap(o) == o[1]

(***************************************************************************)
(* Text helpers (std library behaviour used by the source).                *)
(***************************************************************************)

\* char::is_ascii_hexdigit : 0-9, A-F, a-f
is_ascii_hexdigit(c) ==
    \/ (c >= 48 /\ c <= 57)
    \/ (c >= 65 /\ c <= 70)
    \/ (c >= 97 /\ c <= 102)

\* char::to_ascii_uppercase
to_ascii_uppercase(c) == IF c >= 97 /\ c <= 122 THEN c - 32 ELSE c

\* White space removed by str::trim (the ASCII part of White_Space)
IsWhitespace(c) == c \in {9, 10, 11, 12, 13, 32}

RECURSIVE TrimStart(_)
TrimStart(s) ==
    IF s # <<>> /\ IsWhitespace(s[1]) THEN TrimStart(Tail(s)) ELSE s

RECURSIVE TrimEnd(_)
TrimEnd(s) ==
    IF s # <<>> /\ IsWhitespace(s[Len(s)])
    THEN TrimEnd(SubSeq(s, 1, Len(s) - 1))
    ELSE s

\* At most one white-space character removed from each end
TrimOnce(s) ==
    LET a == IF s # <<>> /\ IsWhitespace(s[1]) THEN Tail(s) ELSE s
    IN  IF a # <<>> /\ IsWhitespace(a[Len(a)]) THEN SubSeq(a, 1, Len(a) - 1) ELSE a

\* str::trim
Trim(s) == TrimEnd(TrimStart(s))

\* Ord for str: byte-wise lexicographic order; -1, 0, 1 for Less, Equal, Greater
RECURSIVE StrCmp(_, _)
StrCmp(a, b) ==
    IF a = <<>> /\ b = <<>> THEN 0
    ELSE IF a = <<>> THEN -1
    ELSE IF b = <<>> THEN 1
    ELSE IF a[1] < b[1] THEN -1
    ELSE IF a[1] > b[1] THEN 1
    ELSE StrCmp(Tail(a), Tail(b))

\* The hex digit characters "0123456789ABCDEF" used by {:04X}
HexDigits == <<48, 49, 50, 51, 52, 53, 54, 55, 56, 57, 65, 66, 67, 68, 69, 70>>

\* format!("{:04X}", v) for a u16
Hex4(v) ==
    << HexDigits[((v \div 4096) % 16) + 1], HexDigits[((v \div 256) % 16) + 1],
       HexDigits[((v \div 16) % 16) + 1],   HexDigits[(v % 16) + 1] >>

(***************************************************************************)
(* The dictionary (crate::dicts): ATTRIBUTES and its two sorted indices.   *)
(* The generated table is not part of the sources at hand; a small catalog *)
(* with the schema of section 3 stands for it, holding attributes of the   *)
(* textual, scalar, binary, sequence and ambiguous VRs.  Two catalogs are  *)
(* possible states of the table: catalog 1 holds the pixel-data attribute, *)
(* catalog 2 does not.                                                     *)
(***************************************************************************)

Attr(t, k, v) == [tag |-> t, keyword |-> k, vr |-> v]

\* "(0002,0002)" MediaStorageSOPClassUID UI
A_MediaStorageSOPClassUID ==
    Attr(<<40,48,48,48,50,44,48,48,48,50,41>>,
         <<77,101,100,105,97,83,116,111,114,97,103,101,83,79,80,67,108,97,115,115,85,73,68>>,
         Some("Ui"))
\* "(0002,0010)" TransferSyntaxUID UI
A_TransferSyntaxUID ==
    Attr(<<40,48,48,48,50,44,48,48,49,48,41>>,
         <<84,114,97,110,115,102,101,114,83,121,110,116,97,120,85,73,68>>,
         Some("Ui"))
\* "(0008,0060)" Modality CS
A_Modality ==
    Attr(<<40,48,48,48,56,44,48,48,54,48,41>>,
         <<77,111,100,97,108,105,116,121>>,
         Some("Cs"))
\* "(0010,0010)" PatientName PN
A_PatientName ==
    Attr(<<40,48,48,49,48,44,48,48,49,48,41>>,
         <<80,97,116,105,101,110,116,78,97,109,101>>,
         Some("Pn"))
\* "(0028,0010)" Rows US
A_Rows ==
    Attr(<<40,48,48,50,56,44,48,48,49,48,41>>,
         <<82,111,119,115>>,
         Some("Us"))
\* "(7FE0,0010)" PixelData OB or OW
A_PixelData ==
    Attr(<<40,55,70,69,48,44,48,48,49,48,41>>,
         <<80,105,120,101,108,68,97,116,97>>,
         Some("ObOrOw"))

\* "(0028,0106)" SmallestImagePixelValue US or SS
A_SmallestImagePixelValue ==
    Attr(<<40,48,48,50,56,44,48,49,48,54,41>>,
         <<83,109,97,108,108,101,115,116,73,109,97,103,101,80,105,120,101,108,86,97,108,117,101>>,
         Some("UsOrSs"))
\* "(0028,3006)" LUTData US or OW
A_LUTData ==
    Attr(<<40,48,48,50,56,44,51,48,48,54,41>>,
         <<76,85,84,68,97,116,97>>,
         Some("UsOrOw"))
\* "(0072,0060)" SelectorATValue AT
A_SelectorATValue ==
    Attr(<<40,48,48,55,50,44,48,48,54,48,41>>,
         <<83,101,108,101,99,116,111,114,65,84,86,97,108,117,101>>,
         Some("At"))
\* "(0072,0065)" SelectorOBValue OB
A_SelectorOBValue ==
    Attr(<<40,48,48,55,50,44,48,48,54,53,41>>,
         <<83,101,108,101,99,116,111,114,79,66,86,97,108,117,101>>,
         Some("Ob"))
\* "(0072,006D)" SelectorUNValue UN
A_SelectorUNValue ==
    Attr(<<40,48,48,55,50,44,48,48,54,68,41>>,
         <<83,101,108,101,99,116,111,114,85,78,86,97,108,117,101>>,
         Some("Un"))
\* "(0072,0074)" SelectorFDValue FD
A_SelectorFDValue ==
    Attr(<<40,48,48,55,50,44,48,48,55,52,41>>,
         <<83,101,108,101,99,116,111,114,70,68,86,97,108,117,101>>,
         Some("Fd"))
\* "(0072,0076)" SelectorFLValue FL
A_SelectorFLValue ==
    Attr(<<40,48,48,55,50,44,48,48,55,54,41>>,
         <<83,101,108,101,99,116,111,114,70,76,86,97,108,117,101>>,
         Some("Fl"))
\* "(0072,0078)" SelectorULValue UL
A_SelectorULValue ==
    Attr(<<40,48,48,55,50,44,48,48,55,56,41>>,
         <<83,101,108,101,99,116,111,114,85,76,86,97,108,117,101>>,
         Some("Ul"))
\* "(0072,007A)" SelectorUSValue US
A_SelectorUSValue ==
    Attr(<<40,48,48,55,50,44,48,48,55,65,41>>,
         <<83,101,108,101,99,116,111,114,85,83,86,97,108,117,101>>,
         Some("Us"))
\* "(0072,007C)" SelectorSLValue SL
A_SelectorSLValue ==
    Attr(<<40,48,48,55,50,44,48,48,55,67,41>>,
         <<83,101,108,101,99,116,111,114,83,76,86,97,108,117,101>>,
         Some("Sl"))
\* "(0072,007E)" SelectorSSValue SS
A_SelectorSSValue ==
    Attr(<<40,48,48,55,50,44,48,48,55,69,41>>,
         <<83,101,108,101,99,116,111,114,83,83,86,97,108,117,101>>,
         Some("Ss"))
\* "(0072,0080)" SelectorCodeSequenceValue SQ
A_SelectorCodeSequenceValue ==
    Attr(<<40,48,48,55,50,44,48,48,56,48,41>>,
         <<83,101,108,101,99,116,111,114,67,111,100,101,83,101,113,117,101,110,99,101,86,97,108,117,101>>,
         Some("Sq"))
\* "(0072,0082)" SelectorSVValue SV
A_SelectorSVValue ==
    Attr(<<40,48,48,55,50,44,48,48,56,50,41>>,
         <<83,101,108,101,99,116,111,114,83,86,86,97,108,117,101>>,
         Some("Sv"))
\* "(0072,0083)" SelectorUVValue UV
A_SelectorUVValue ==
    Attr(<<40,48,48,55,50,44,48,48,56,51,41>>,
         <<83,101,108,101,99,116,111,114,85,86,86,97,108,117,101>>,
         Some("Uv"))
\* "(5400,1010)" WaveformData OB or OW
A_WaveformData ==
    Attr(<<40,53,52,48,48,44,49,48,49,48,41>>,
         <<87,97,118,101,102,111,114,109,68,97,116,97>>,
         Some("ObOrOw"))

Catalogs == {1, 2}

\* The attribute table, in tag order
ATTRIBUTES(d) ==
    IF d = 1
    THEN << A_MediaStorageSOPClassUID, A_TransferSyntaxUID, A_Modality,
            A_PatientName, A_Rows, A_SmallestImagePixelValue, A_LUTData,
            A_SelectorATValue, A_SelectorOBValue, A_SelectorUNValue,
            A_SelectorFDValue, A_SelectorFLValue, A_SelectorULValue,
            A_SelectorUSValue, A_SelectorSLValue, A_SelectorSSValue,
            A_SelectorCodeSequenceValue, A_SelectorSVValue,
            A_SelectorUVValue, A_WaveformData, A_PixelData >>
    ELSE << A_MediaStorageSOPClassUID, A_TransferSyntaxUID, A_Modality,
            A_PatientName, A_Rows, A_SmallestImagePixelValue, A_LUTData,
            A_SelectorATValue, A_SelectorOBValue, A_SelectorUNValue,
            A_SelectorFDValue, A_SelectorFLValue, A_SelectorULValue,
            A_SelectorUSValue, A_SelectorSLValue, A_SelectorSSValue,
            A_SelectorCodeSequenceValue, A_SelectorSVValue,
            A_SelectorUVValue, A_WaveformData >>

\* (tag, index into ATTRIBUTES), sorted by tag
TAG_INDEX(d) == [i \in 1..Len(ATTRIBUTES(d)) |-> <<ATTRIBUTES(d)[i].tag, i>>]

\* (keyword, index into ATTRIBUTES), sorted by keyword
KEYWORD_INDEX(d) ==
    IF d = 1
    THEN << <<A_LUTData.keyword, 7>>,
            <<A_MediaStorageSOPClassUID.keyword, 1>>,
            <<A_Modality.keyword, 3>>, <<A_PatientName.keyword, 4>>,
            <<A_PixelData.keyword, 21>>, <<A_Rows.keyword, 5>>,
            <<A_SelectorATValue.keyword, 8>>,
            <<A_SelectorCodeSequenceValue.keyword, 17>>,
            <<A_SelectorFDValue.keyword, 11>>,
            <<A_SelectorFLValue.keyword, 12>>,
            <<A_SelectorOBValue.keyword, 9>>,
            <<A_SelectorSLValue.keyword, 15>>,
            <<A_SelectorSSValue.keyword, 16>>,
            <<A_SelectorSVValue.keyword, 18>>,
            <<A_SelectorULValue.keyword, 13>>,
            <<A_SelectorUNValue.keyword, 10>>,
            <<A_SelectorUSValue.keyword, 14>>,
            <<A_SelectorUVValue.keyword, 19>>,
            <<A_SmallestImagePixelValue.keyword, 6>>,
            <<A_TransferSyntaxUID.keyword, 2>>,
            <<A_WaveformData.keyword, 20>> >>
    ELSE << <<A_LUTData.keyword, 7>>,
            <<A_MediaStorageSOPClassUID.keyword, 1>>,
            <<A_Modality.keyword, 3>>, <<A_PatientName.keyword, 4>>,
            <<A_Rows.keyword, 5>>, <<A_SelectorATValue.keyword, 8>>,
            <<A_SelectorCodeSequenceValue.keyword, 17>>,
            <<A_SelectorFDValue.keyword, 11>>,
            <<A_SelectorFLValue.keyword, 12>>,
            <<A_SelectorOBValue.keyword, 9>>,
            <<A_SelectorSLValue.keyword, 15>>,
            <<A_SelectorSSValue.keyword, 16>>,
            <<A_SelectorSVValue.keyword, 18>>,
            <<A_SelectorULValue.keyword, 13>>,
            <<A_SelectorUNValue.keyword, 10>>,
            <<A_SelectorUSValue.keyword, 14>>,
            <<A_SelectorUVValue.keyword, 19>>,
            <<A_SmallestImagePixelValue.keyword, 6>>,
            <<A_TransferSyntaxUID.keyword, 2>>,
            <<A_WaveformData.keyword, 20>> >>

(***************************************************************************)
(* dataelem.rs: normalize_tag, attribute_by_tag, attribute_by_keyword      *)
(***************************************************************************)

\* DicomVr::suggested_value_kind
suggested_value_kind(vr) ==
    IF vr \in {"Ae", "As", "Cs", "Da", "Ds", "Dt", "Is", "Lo", "Lt", "Pn", "Sh",
               "St", "Tm", "Uc", "Ui", "Ur", "Ut", "ObOrOw", "UsOrOw", "UsOrSs"}
    THEN "String"
    ELSE IF vr = "At" THEN "Tag"
    ELSE IF vr = "Fd" THEN "Double"
    ELSE IF vr = "Fl" THEN "Float"
    ELSE IF vr \in {"Ob", "Od", "Of", "Ol", "Ov", "Ow", "Un"} THEN "Data"
    ELSE IF vr = "Sl" THEN "Int32"
    ELSE IF vr = "Sq" THEN "Sequence"
    ELSE IF vr = "Ss" THEN "Int16"
    ELSE IF vr = "Sv" THEN "Int64"
    ELSE IF vr = "Ul" THEN "UInt32"
    ELSE IF vr = "Us" THEN "UInt16"
    ELSE "UInt64"   \* Uv

Contains(s, c) == \E i \in 1..Len(s) : s[i] = c

IsHexChar(c) == is_ascii_hexdigit(c)

\* The hex digits kept as written, without the map to upper case
HexOf_as_written(s) == SelectSeq(s, IsHexChar)

\* s.chars().filter(is_ascii_hexdigit).map(to_ascii_uppercase).collect()
HexOf(s) ==
    LET kept == SelectSeq(s, IsHexChar)
    IN  [i \in 1..Len(kept) |-> to_ascii_uppercase(kept[i])]

normalize_tag(id_or_tag) ==
    LET s == Trim(id_or_tag)
        hex == HexOf(s)
    IN  IF s # <<>> /\ s[1] = 40 /\ s[Len(s)] = 41 /\ Contains(s, 44)
        THEN s
        ELSE IF Len(hex) = 8
        THEN <<40>> \o SubSeq(hex, 1, 4) \o <<44>> \o SubSeq(hex, 5, 8) \o <<41>>
        ELSE s

\* slice::binary_search_by on an index sorted by key: Some(position) or None
RECURSIVE BinarySearch(_, _, _, _)
BinarySearch(index, key, lo, hi) ==
    IF lo > hi THEN None
    ELSE LET mid == (lo + hi) \div 2
             c == StrCmp(index[mid][1], key)
         IN  IF c = 0 THEN Some(mid)
             ELSE IF c < 0 THEN BinarySearch(index, key, mid + 1, hi)
             ELSE BinarySearch(index, key, lo, mid - 1)

\* The fallback linear scans: the first attribute whose field equals the key
LinearByTag(d, key) ==
    LET hits == {i \in 1..Len(ATTRIBUTES(d)) : ATTRIBUTES(d)[i].tag = key}
    IN  IF hits = {} THEN None
        ELSE Some(ATTRIBUTES(d)[CHOOSE i \in hits : \A j \in hits : i <= j])

LinearByKeyword(d, key) ==
    LET hits == {i \in 1..Len(ATTRIBUTES(d)) : ATTRIBUTES(d)[i].keyword = key}
    IN  IF hits = {} THEN None
        ELSE Some(ATTRIBUTES(d)[CHOOSE i \in hits : \A j \in hits : i <= j])

\* A lookup that takes the index position for a 1-based attribute number
attribute_by_tag_shifted(d, id_or_tag) ==
    LET normalized == normalize_tag(id_or_tag)
        r == BinarySearch(TAG_INDEX(d), normalized, 1, Len(TAG_INDEX(d)))
    IN  IF IsSome(r)
        THEN Some(ATTRIBUTES(d)[(TAG_INDEX(d)[Unwrap(r)][2] % Len(ATTRIBUTES(d))) + 1])
        ELSE LinearByTag(d, normalized)

attribute_by_tag(d, id_or_tag) ==
    LET normalized == normalize_tag(id_or_tag)
        r == BinarySearch(TAG_INDEX(d), normalized, 1, Len(TAG_INDEX(d)))
    IN  IF IsSome(r)
        THEN Some(ATTRIBUTES(d)[TAG_INDEX(d)[Unwrap(r)][2]])
        ELSE LinearByTag(d, normalized)

\* A lookup that takes the position in the index for the attribute number
attribute_by_keyword_position(d, keyword) ==
    LET r == BinarySearch(KEYWORD_INDEX(d), keyword, 1, Len(KEYWORD_INDEX(d)))
    IN  IF IsSome(r)
        THEN Some(ATTRIBUTES(d)[Unwrap(r)])
        ELSE LinearByKeyword(d, keyword)

attribute_by_keyword(d, keyword) ==
    LET r == BinarySearch(KEYWORD_INDEX(d), keyword, 1, Len(KEYWORD_INDEX(d)))
    IN  IF IsSome(r)
        THEN Some(ATTRIBUTES(d)[KEYWORD_INDEX(d)[Unwrap(r)][2]])
        ELSE LinearByKeyword(d, keyword)

(***************************************************************************)
(* modules/io/mod.rs: transfer syntaxes and the binary primitives          *)
(***************************************************************************)

TransferSyntax(e, m) == [endian |-> e, vr_mode |-> m]

\* "1.2.840.10008.1.2"
UID_ImplicitLE == <<49,46,50,46,56,52,48,46,49,48,48,48,56,46,49,46,50>>
\* "1.2.840.10008.1.2.1"
UID_ExplicitLE == <<49,46,50,46,56,52,48,46,49,48,48,48,56,46,49,46,50,46,49>>
\* "1.2.840.10008.1.2.2"
UID_ExplicitBE == <<49,46,50,46,56,52,48,46,49,48,48,48,56,46,49,46,50,46,50>>

ts_from_uid(uid) ==
    IF uid = UID_ImplicitLE THEN TransferSyntax("Little", "Implicit")
    ELSE IF uid = UID_ExplicitLE THEN TransferSyntax("Little", "Explicit")
    ELSE IF uid = UID_ExplicitBE THEN TransferSyntax("Big", "Explicit")
    ELSE TransferSyntax("Little", "Explicit")

\* A u16 read as little endian whatever the endianness
U16_little(b0, b1, e) == b0 + 256 * b1

\* u16::from_le_bytes / u16::from_be_bytes
U16(b0, b1, e) == IF e = "Little" THEN b0 + 256 * b1 ELSE 256 * b0 + b1

\* A u32 is kept as its two 16-bit halves <<high, low>> (value high * 65536 + low):
\* the model checker's integers are 32-bit signed and cannot hold 0xFFFFFFFF.
\* u32::from_le_bytes / u32::from_be_bytes
U32(b0, b1, b2, b3, e) ==
    IF e = "Little"
    THEN << b2 + 256 * b3, b0 + 256 * b1 >>
    ELSE << 256 * b0 + b1, 256 * b2 + b3 >>

\* `x as u32` for a u16 (zero extension)
U32FromU16(x) == << 0, x >>

\* `len as usize`, for a len known to be below 2^31
AsUsize(len) == len[1] * 65536 + len[2]

\* o + (len as usize) > n when the sum does not pass usize::MAX (both operands
\* are below 2^32), for a cursor o and a buffer length n
AddExceeds(o, len, n) == len[1] >= 32768 \/ AsUsize(len) > n - o

\* The build: the width of usize on the target, and whether integer overflow
\* panics (overflow-checks, the default of the dev profile) or wraps (release)
Target(bits, checks) == [usize_bits |-> bits, overflow_checks |-> checks]

\* A 64-bit usize holds every cursor + u32 sum, so overflow-checks never acts
Target64 == Target(64, FALSE)

Targets32 == { Target(32, TRUE), Target(32, FALSE) }

\* o + (len as usize) passes usize::MAX: only where usize is 32 bits wide;
\* the cursor o is below 2^16 for every buffer considered
Overflows(tg, o, len) ==
    tg.usize_bits = 32 /\ len[1] = 65535 /\ o + len[2] >= 65536

\* The sum modulo 2^32, for a sum that passes usize::MAX
WrappedAdd(o, len) == o + len[2] - 65536

\* The + panics: "attempt to add with overflow"
add_panics(tg, o, len) == tg.overflow_checks /\ Overflows(tg, o, len)

\* o + (len as usize) > n as the target computes it
usize_add_exceeds(tg, o, len, n) ==
    IF Overflows(tg, o, len) THEN WrappedAdd(o, len) > n
    ELSE AddExceeds(o, len, n)

\* The cursor set to the value length instead of moved by it
skip_value_assign(tg, o, len) == AsUsize(len)

\* off += len as usize;  the cursor o being just after the header
skip_value(tg, o, len) ==
    IF Overflows(tg, o, len) THEN WrappedAdd(o, len) ELSE o + AsUsize(len)

\* read_u16: [ok, v, off]; the cursor moves only on success
read_u16(b, o, e) ==
    IF o + 2 > Len(b) THEN [ok |-> FALSE, v |-> 0, off |-> o]
    ELSE [ok |-> TRUE, v |-> U16(b[o + 1], b[o + 2], e), off |-> o + 2]

\* read_u32: [ok, v, off]; the cursor moves only on success
read_u32(b, o, e) ==
    IF o + 4 > Len(b) THEN [ok |-> FALSE, v |-> <<0, 0>>, off |-> o]
    ELSE [ok |-> TRUE, v |-> U32(b[o + 1], b[o + 2], b[o + 3], b[o + 4], e),
          off |-> o + 4]

(***************************************************************************)
(* read_elem_header: [ok, off, hdr]; hdr = [group, element, vr, len].      *)
(* On failure (the ? operator, or an explicit return None) the cursor      *)
(* stays where the failing read left it.                                   *)
(***************************************************************************)

ElemHeader(g, e, v, l) == [group |-> g, element |-> e, vr |-> v, len |-> l]

NoHeader == ElemHeader(0, 0, None, <<0, 0>>)

\* The long VRs without UT
LongVrs_without_UT == { <<79,66>>, <<79,87>>, <<79,70>>, <<83,81>>, <<85,78>> }

\* b"OB" | b"OW" | b"OF" | b"SQ" | b"UT" | b"UN"
LongVrs == { <<79,66>>, <<79,87>>, <<79,70>>, <<83,81>>, <<85,84>>, <<85,78>> }

read_elem_header(b, o, endian, vr_mode) ==
    LET g  == read_u16(b, o, endian)
        el == read_u16(b, g.off, endian)
        o4 == el.off
        Fail(at) == [ok |-> FALSE, off |-> at, hdr |-> NoHeader]
    IN  IF ~g.ok THEN Fail(g.off)
        ELSE IF ~el.ok THEN Fail(el.off)
        ELSE IF vr_mode = "Explicit"
        THEN IF o4 + 2 > Len(b) THEN Fail(o4)
             ELSE LET vr == << b[o4 + 1], b[o4 + 2] >>
                      o6 == o4 + 2
                  IN  IF vr \in LongVrs
                      THEN IF o6 + 2 > Len(b) THEN Fail(o6)
                           ELSE LET l == read_u32(b, o6 + 2, endian)
                                IN  IF ~l.ok THEN Fail(l.off)
                                    ELSE [ok |-> TRUE, off |-> l.off,
                                          hdr |-> ElemHeader(g.v, el.v, Some(vr), l.v)]
                      ELSE IF o6 + 2 > Len(b) THEN Fail(o6)
                           ELSE [ok |-> TRUE, off |-> o6 + 2,
                                 hdr |-> ElemHeader(g.v, el.v, Some(vr),
                                            U32FromU16(U16(b[o6 + 1], b[o6 + 2], endian)))]
        ELSE LET l == read_u32(b, o4, endian)
             IN  IF ~l.ok THEN Fail(l.off)
                 ELSE [ok |-> TRUE, off |-> l.off,
                       hdr |-> ElemHeader(g.v, el.v, None, l.v)]

(***************************************************************************)
(* dataset.rs: the Dataset container                                       *)
(***************************************************************************)

Dataset(fm, de, px) == [file_meta |-> fm, data_elements |-> de, pixel_data |-> px]

\* Dataset::new
Dataset_new == Dataset(<<>>, <<>>, None)

\* Dataset::set_file_meta
set_file_meta(d, meta) == [d EXCEPT !.file_meta = meta]

\* A push that inserts at the front
push_front(d, elem) == [d EXCEPT !.data_elements = <<elem>> \o @]

\* Dataset::push
push(d, elem) == [d EXCEPT !.data_elements = Append(@, elem)]

\* Dataset::set_pixel_data
set_pixel_data(d, data) == [d EXCEPT !.pixel_data = Some(data)]

DataElement(a, v) == [attribute |-> a, value |-> v]

\* iter().find(|de| de.attribute.tag == tag): the first match, or None
Find(elems, tag) ==
    LET hits == {i \in 1..Len(elems) : elems[i].attribute.tag = tag}
    IN  IF hits = {} THEN None
        ELSE Some(elems[CHOOSE i \in hits : \A j \in hits : i <= j])

\* The search with the main elements looked at first
FindIn_main_first(d, tag) ==
    IF IsSome(Find(d.data_elements, tag)) THEN Find(d.data_elements, tag)
    ELSE Find(d.file_meta, tag)

\* The search both arms of Dataset::get perform: file meta, then main elements
FindIn(d, tag) ==
    IF IsSome(Find(d.file_meta, tag)) THEN Find(d.file_meta, tag)
    ELSE Find(d.data_elements, tag)

\* Dataset::get
get(cat, d, tag_or_keyword) ==
    LET byTag == attribute_by_tag(cat, tag_or_keyword)
        byKw  == attribute_by_keyword(cat, tag_or_keyword)
    IN  IF IsSome(byTag) THEN FindIn(d, Unwrap(byTag).tag)
        ELSE IF IsSome(byKw) THEN FindIn(d, Unwrap(byKw).tag)
        ELSE None

(***************************************************************************)
(* modules/io/mod.rs: the typed decode of one value (read_dicom, the match *)
(* on attr.vr).  A DataElementValue is [kind, v]; v is a byte sequence for *)
(* String and Data, and for the scalars the number in 16-bit digits, most  *)
(* significant first (one digit for 16 bits, two for 32, four for 64);     *)
(* Int16 and Int32 hold the signed number; Int64, Float and Double hold    *)
(* the bits of the number.                                                 *)
(***************************************************************************)

Value(k, v) == [kind |-> k, v |-> v]

IsCont(c) == c >= 128 /\ c <= 191

\* std::str::from_utf8(val).is_ok(): the well-formed byte sequences of UTF-8
RECURSIVE IsUtf8(_)
IsUtf8(s) ==
    IF s = <<>> THEN TRUE
    ELSE LET c == s[1]
             n == Len(s)
         IN  IF c <= 127 THEN IsUtf8(Tail(s))
             ELSE IF c >= 194 /\ c <= 223
             THEN n >= 2 /\ IsCont(s[2]) /\ IsUtf8(SubSeq(s, 3, n))
             ELSE IF c >= 224 /\ c <= 239
             THEN /\ n >= 3
                  /\ IsCont(s[2]) /\ IsCont(s[3])
                  /\ (c = 224 => s[2] >= 160)
                  /\ (c = 237 => s[2] <= 159)
                  /\ IsUtf8(SubSeq(s, 4, n))
             ELSE IF c >= 240 /\ c <= 244
             THEN /\ n >= 4
                  /\ IsCont(s[2]) /\ IsCont(s[3]) /\ IsCont(s[4])
                  /\ (c = 240 => s[2] >= 144)
                  /\ (c = 244 => s[2] <= 143)
                  /\ IsUtf8(SubSeq(s, 5, n))
             ELSE FALSE

\* s.trim_end_matches(['\0', ' '])
RECURSIVE trim_end_matches(_)
trim_end_matches(s) ==
    IF s # <<>> /\ s[Len(s)] \in {0, 32}
    THEN trim_end_matches(SubSeq(s, 1, Len(s) - 1))
    ELSE s

\* The VRs of the first arm of the match
TextVrs == {"Ae", "As", "Cs", "Da", "Ds", "Dt", "Is", "Lo", "Lt", "Pn", "Sh",
            "St", "Tm", "Uc", "Ui", "Ur", "Ut"}

\* i16 from the u16 with the same bits
I16(u) == IF u >= 32768 THEN u - 65536 ELSE u

\* i32 from the two halves of the u32 with the same bits
I32(w) == (IF w[1] >= 32768 THEN w[1] - 65536 ELSE w[1]) * 65536 + w[2]

\* The four 16-bit digits of the 64-bit number in val[1..8]
U64(val, e) ==
    IF e = "Little"
    THEN << val[7] + 256 * val[8], val[5] + 256 * val[6],
            val[3] + 256 * val[4], val[1] + 256 * val[2] >>
    ELSE << 256 * val[1] + val[2], 256 * val[3] + val[4],
            256 * val[5] + val[6], 256 * val[7] + val[8] >>

parse_value(attr, val, ts) ==
    LET e  == ts.endian
        vr == IF IsSome(attr.vr) THEN Unwrap(attr.vr) ELSE "none"
        n  == Len(val)
        Data == Value("Data", val)
    IN  IF vr \in TextVrs
        THEN Value("String", trim_end_matches(IF IsUtf8(val) THEN val ELSE <<>>))
        ELSE IF vr = "Us"
        THEN IF n = 2 THEN Value("UInt16", << U16(val[1], val[2], e) >>) ELSE Data
        ELSE IF vr = "Ss"
        THEN IF n = 2 THEN Value("Int16", << I16(U16(val[1], val[2], e)) >>) ELSE Data
        ELSE IF vr = "Ul"
        THEN IF n = 4 THEN Value("UInt32", U32(val[1], val[2], val[3], val[4], e))
             ELSE Data
        ELSE IF vr = "Sl"
        THEN IF n = 4
             THEN Value("Int32", << I32(U32(val[1], val[2], val[3], val[4], e)) >>)
             ELSE Data
        ELSE IF vr = "Uv"
        THEN IF n = 8 THEN Value("UInt64", U64(val, e)) ELSE Data
        ELSE IF vr = "Sv"
        THEN IF n = 8 THEN Value("Int64", U64(val, e)) ELSE Data
        ELSE IF vr = "Fd"
        THEN IF n = 8 THEN Value("Double", U64(val, e)) ELSE Data
        ELSE IF vr = "Fl"
        THEN IF n = 4 THEN Value("Float", U32(val[1], val[2], val[3], val[4], e))
             ELSE Data
        ELSE IF vr = "At"
        THEN IF n = 4
             THEN Value("Tag", << U16(val[1], val[2], e), U16(val[3], val[4], e) >>)
             ELSE Data
        ELSE Data

(***************************************************************************)
(* modules/io/mod.rs: one iteration of the loop of parse_file_meta         *)
(*   k = "none"  : return None (header unreadable, or the value overruns)  *)
(*   k = "break" : first header outside group 0x0002; cursor restored      *)
(*   k = "next"  : a group-0x0002 element was skipped                      *)
(*   k = "panic" : the sum off + len overflowed under overflow-checks      *)
(***************************************************************************)

MetaOut(k, o, h, vo) == [k |-> k, off |-> o, hdr |-> h, voff |-> vo]

\* The File-Meta loop without its bounds check
meta_value_unchecked(tg, b, o, len) == FALSE

\* if off + (h.len as usize) > buf.len() { return None; }
meta_value_overruns(tg, b, o, len) == usize_add_exceeds(tg, o, len, Len(b))

parse_file_meta_iter(tg, b, o) ==
    LET save == o
        r == read_elem_header(b, o, "Little", "Explicit")
    IN  IF ~r.ok THEN MetaOut("none", r.off, NoHeader, r.off)
        ELSE IF r.hdr.group # 2 THEN MetaOut("break", save, r.hdr, r.off)
        ELSE IF add_panics(tg, r.off, r.hdr.len)
        THEN MetaOut("panic", r.off, r.hdr, r.off)
        ELSE IF meta_value_overruns(tg, b, r.off, r.hdr.len)
        THEN MetaOut("none", r.off, r.hdr, r.off)
        ELSE MetaOut("next", skip_value(tg, r.off, r.hdr.len), r.hdr, r.off)

\* let ts_uid = String::new();  (never assigned afterwards)
ts_uid == <<>>

\* The transfer syntax parse_file_meta returns after its loop
resolve_ts ==
    IF ts_uid = <<>> THEN ts_from_uid(UID_ImplicitLE) ELSE ts_from_uid(ts_uid)

(***************************************************************************)
(* modules/io/mod.rs: one iteration of the main loop of read_dicom         *)
(*   k = "break"    : leave the loop, return ds                            *)
(*   k = "return"   : return ds from inside the loop (truncated value)     *)
(*   k = "continue" : the element was consumed                             *)
(*   k = "panic"    : off + len overflowed under overflow-checks, or a     *)
(*                    slice index out of range                             *)
(***************************************************************************)

\* 0xFFFF_FFFF
UNDEFINED_LENGTH == << 65535, 65535 >>

Diag(k, h) == [kind |-> k, group |-> h.group, element |-> h.element]

WalkOut(k, o, d, dg, h, vo) ==
    [k |-> k, off |-> o, ds |-> d, diag |-> dg, hdr |-> h, voff |-> vo]

\* format!("({:04X},{:04X})", hdr.group, hdr.element)
tag_str(h) == <<40>> \o Hex4(h.group) \o <<44>> \o Hex4(h.element) \o <<41>>

\* The entries built when the pixel-data arm lacks its `continue`
build_entries_fallthrough(cat, d, h, val, t) ==
    LET a == attribute_by_tag(cat, tag_str(h))
        d1 == IF h.group = 32736 /\ h.element = 16
              THEN LET d0 == set_pixel_data(d, val)
                   IN  IF IsSome(a) THEN push(d0, DataElement(Unwrap(a), None)) ELSE d0
              ELSE d
    IN  IF IsSome(a)
        THEN push(d1, DataElement(Unwrap(a), Some(parse_value(Unwrap(a), val, t))))
        ELSE d1

\* The entries built when an element present with zero length gets no value
build_entries_empty_absent(cat, d, h, val, t) ==
    LET a == attribute_by_tag(cat, tag_str(h))
    IN  IF h.group = 32736 /\ h.element = 16
        THEN LET d1 == set_pixel_data(d, val)
             IN  IF IsSome(a) THEN push(d1, DataElement(Unwrap(a), None)) ELSE d1
        ELSE IF IsSome(a)
        THEN push(d, DataElement(Unwrap(a),
                     IF val = <<>> THEN None
                     ELSE Some(parse_value(Unwrap(a), val, t))))
        ELSE d

\* "Build dataset entries": what one fully read element adds to ds
build_entries(cat, d, h, val, t) ==
    LET a == attribute_by_tag(cat, tag_str(h))
    IN  IF h.group = 32736 /\ h.element = 16
        THEN LET d1 == set_pixel_data(d, val)
             IN  IF IsSome(a) THEN push(d1, DataElement(Unwrap(a), None)) ELSE d1
        ELSE IF IsSome(a)
        THEN push(d, DataElement(Unwrap(a), Some(parse_value(Unwrap(a), val, t))))
        ELSE d

\* The undefined-length arm with `continue` for `break`
on_undefined_length_continue(o, d, h) ==
    WalkOut("continue", o, d, << Diag("undefined length", h) >>, h, o)

\* if hdr.len == 0xFFFF_FFFF { eprintln!(..); break; }
on_undefined_length(o, d, h) ==
    WalkOut("break", o, d, << Diag("undefined length", h) >>, h, o)

\* The truncation arm returning Dataset::new(), as the earlier error returns do
on_truncated_value_empty(o, d, h) ==
    WalkOut("return", o, Dataset_new, << Diag("truncated value", h) >>, h, o)

\* if off + (hdr.len as usize) > buffer.len() { eprintln!(..); return ds; }
on_truncated_value(o, d, h) ==
    WalkOut("return", o, d, << Diag("truncated value", h) >>, h, o)

\* The bounds check of the value
value_overruns(tg, b, o, len) == usize_add_exceeds(tg, o, len, Len(b))

\* &buffer[off..off + len] panics: the end is past the buffer, or (the sum
\* having wrapped) before the start
slice_panics(tg, b, o, len) ==
    Overflows(tg, o, len) \/ AddExceeds(o, len, Len(b))

read_dicom_iter(tg, cat, b, o, t, d) ==
    IF o + 8 > Len(b) THEN WalkOut("break", o, d, <<>>, NoHeader, o)
    ELSE LET r == read_elem_header(b, o, t.endian, t.vr_mode)
             h == r.hdr
         IN  IF ~r.ok THEN WalkOut("break", r.off, d, <<>>, NoHeader, r.off)
             ELSE IF h.len = UNDEFINED_LENGTH THEN on_undefined_length(r.off, d, h)
             ELSE IF add_panics(tg, r.off, h.len)
             THEN WalkOut("panic", r.off, d, <<>>, h, r.off)
             ELSE IF value_overruns(tg, b, r.off, h.len)
             THEN on_truncated_value(r.off, d, h)
             ELSE IF slice_panics(tg, b, r.off, h.len)
             THEN WalkOut("panic", r.off, d, <<>>, h, r.off)
             ELSE LET n == AsUsize(h.len)
                      val == SubSeq(b, r.off + 1, r.off + n)
                  IN  WalkOut("continue", skip_value(tg, r.off, h.len),
                              build_entries(cat, d, h, val, t), <<>>, h, r.off)

(***************************************************************************)
(* The inputs: byte buffers laid out as section 6 describes a Part 10      *)
(* file (preamble, magic, File Meta in Explicit VR Little Endian, main     *)
(* dataset in the announced transfer syntax), cut short by a few bytes,    *)
(* and buffers that are not Part 10.                                       *)
(***************************************************************************)

MaxMeta == 2
MaxMain == 2
MaxCut == 3

Enc16(v, e) == IF e = "Little" THEN << v % 256, v \div 256 >> ELSE << v \div 256, v % 256 >>

Enc32(w, e) ==
    IF e = "Little" THEN Enc16(w[2], e) \o Enc16(w[1], e)
    ELSE Enc16(w[1], e) \o Enc16(w[2], e)

\* An element as written: tag, VR code, declared length, value bytes
Elem(g, e, vr, len, val) == [group |-> g, element |-> e, vr |-> vr, len |-> len, val |-> val]

EncodeElem(el, t) ==
    Enc16(el.group, t.endian) \o Enc16(el.element, t.endian)
    \o (IF t.vr_mode = "Explicit"
        THEN el.vr \o (IF el.vr \in LongVrs
                       THEN <<0, 0>> \o Enc32(el.len, t.endian)
                       ELSE Enc16(el.len[2], t.endian))
        ELSE Enc32(el.len, t.endian))
    \o el.val

RECURSIVE EncodeAll(_, _)
EncodeAll(els, t) ==
    IF els = <<>> THEN <<>> ELSE EncodeElem(Head(els), t) \o EncodeAll(Tail(els), t)

\* "1.2.840.10008.1.2.4.50" (JPEG baseline: none of the three listed UIDs)
UID_Jpeg == <<49,46,50,46,56,52,48,46,49,48,48,48,56,46,49,46,50,46,52,46,53,48>>

\* A UI value: the UID padded with NUL to even length
PadUid(u) == IF Len(u) % 2 = 1 THEN Append(u, 0) ELSE u

\* (0002,0010) UI TransferSyntaxUID
TsElem(uid) == Elem(2, 16, <<85,73>>, <<0, Len(PadUid(uid))>>, PadUid(uid))

\* (0002,0002) UI MediaStorageSOPClassUID = "1" NUL
SopElem == Elem(2, 2, <<85,73>>, <<0, 2>>, <<49, 0>>)

MetaAlphabet ==
    { TsElem(UID_ImplicitLE), TsElem(UID_ExplicitLE), TsElem(UID_ExplicitBE),
      TsElem(UID_Jpeg), SopElem }

MainAlphabet ==
    { Elem(8, 96, <<67,83>>, <<0, 2>>, <<67, 84>>),           \* (0008,0060) CS "CT"
      Elem(16, 16, <<80,78>>, <<0, 4>>, <<68, 79, 0, 32>>),   \* (0010,0010) PN "DO" NUL SP
      Elem(9, 16, <<76,79>>, <<0, 2>>, <<88, 32>>),           \* (0009,0010) LO, private
      Elem(40, 16, <<85,83>>, <<0, 2>>, <<0, 2>>),            \* (0028,0010) US
      Elem(32736, 16, <<79,66>>, <<0, 2>>, <<7, 9>>),         \* (7FE0,0010) OB pixel data
      \* (FFFE,E000) SQ of undefined length, then an item delimiter (FFFE,E00D)
      Elem(65534, 57344, <<83,81>>, UNDEFINED_LENGTH, <<254, 255, 13, 224, 0, 0, 0, 0>>),
      Elem(8, 96, <<67,83>>, <<0, 10>>, <<67, 84>>) }         \* CS, 10 declared, 2 present

SeqsUpTo(S, n) == UNION { [1..k -> S] : k \in 0..n }

IsTs(el) == el.group = 2 /\ el.element = 16

\* File Meta groups with at most one Transfer Syntax UID
MetaSeqs == { m \in SeqsUpTo(MetaAlphabet, MaxMeta) : Len(SelectSeq(m, IsTs)) <= 1 }

MainSeqs == SeqsUpTo(MainAlphabet, MaxMain)

\* The transfer syntax a writer of the file uses for the main dataset
WriterTs(m) ==
    LET t == SelectSeq(m, IsTs)
    IN  IF t = <<>> THEN TransferSyntax("Little", "Implicit")
        ELSE ts_from_uid(trim_end_matches(t[1].val))

Preamble == [i \in 1..128 |-> 0]

\* b"DICM"
Magic == <<68, 73, 67, 77>>

FileBytes(magic, m, els) ==
    Preamble \o magic \o EncodeAll(m, TransferSyntax("Little", "Explicit"))
             \o EncodeAll(els, WriterTs(m))

Part10Buffers ==
    { SubSeq(FileBytes(Magic, m, els), 1, Len(FileBytes(Magic, m, els)) - c) :
        m \in MetaSeqs, els \in MainSeqs, c \in 0..MaxCut }

\* Wrong magic ("DCMI", "DICm"), and buffers shorter than 132 bytes
OtherBuffers ==
    { FileBytes(mg, m, els) :
        mg \in { <<68, 67, 77, 73>>, <<68, 73, 67, 109>> },
        m \in { m1 \in MetaSeqs : Len(m1) <= 1 },
        els \in { e1 \in MainSeqs : Len(e1) <= 1 } }
    \cup { SubSeq(Preamble \o Magic, 1, n) : n \in {0, 4, 128, 131} }

Buffers == Part10Buffers \cup OtherBuffers

(***************************************************************************)
(* Inputs whose declared value lengths are next to 2^32: Part 10 files     *)
(* without a Transfer Syntax UID, with File Meta elements of a long VR     *)
(* (32-bit length in Explicit VR) and main elements in Implicit VR.        *)
(***************************************************************************)

\* (0002,0001) OB FileMetaInformationVersion, declaring 2^32 - back bytes
HugeMetaElem(back) == Elem(2, 1, <<79,66>>, <<65535, 65536 - back>>, <<0, 1>>)

\* The lengths 0xFFFFFFF4 (cursor + len = 2^32 + the element's first byte),
\* 0xFFFFFFFF, and 0xFFFF0000 (no sum with a cursor below 2^16 passes 2^32)
HugeMetaAlphabet ==
    { SopElem, HugeMetaElem(12), HugeMetaElem(1),
      Elem(2, 1, <<79,66>>, <<65535, 0>>, <<0, 1>>) }

\* (0008,0060) CS "CT"; the same declaring 0xFFFFFFF0 bytes; pixel data
\* declaring 0xFFFFFFFE bytes
HugeMainAlphabet ==
    { Elem(8, 96, <<67,83>>, <<0, 2>>, <<67, 84>>),
      Elem(8, 96, <<67,83>>, <<65535, 65520>>, <<67, 84>>),
      Elem(32736, 16, <<79,66>>, <<65535, 65534>>, <<7, 9>>) }

HugeBuffers ==
    { SubSeq(FileBytes(Magic, m, els), 1, Len(FileBytes(Magic, m, els)) - c) :
        m \in SeqsUpTo(HugeMetaAlphabet, MaxMeta),
        els \in SeqsUpTo(HugeMainAlphabet, MaxMain), c \in 0..MaxCut }

(***************************************************************************)
(* Inputs with more than one pixel-data element: Part 10 files with one    *)
(* File Meta element and no Transfer Syntax UID, whose main dataset (in    *)
(* Implicit VR Little Endian) holds up to MaxPixel elements.               *)
(***************************************************************************)

MaxPixel == 3

\* (7FE0,0010) with the bytes 07 09, with the bytes 01 02 03 04 and with no
\* bytes; (0008,0060) CS "CT"
PixelAlphabet ==
    { Elem(32736, 16, <<79,66>>, <<0, 2>>, <<7, 9>>),
      Elem(32736, 16, <<79,66>>, <<0, 4>>, <<1, 2, 3, 4>>),
      Elem(32736, 16, <<79,66>>, <<0, 0>>, <<>>),
      Elem(8, 96, <<67,83>>, <<0, 2>>, <<67, 84>>) }

PixelBuffers ==
    { FileBytes(Magic, << SopElem >>, els) : els \in SeqsUpTo(PixelAlphabet, MaxPixel) }

(***************************************************************************)
(* Inputs for the typed decode: Part 10 files without a Transfer Syntax    *)
(* UID (main dataset in Implicit VR Little Endian) whose main elements     *)
(* cover the textual, ambiguous, scalar, binary and sequence VRs, with     *)
(* value lengths that match and that do not match the scalar widths, and   *)
(* zero-length values.                                                     *)
(***************************************************************************)

MaxTyped == 1

\* An element whose declared length is the length of its value
El(g, e, vr, val) == Elem(g, e, vr, <<0, Len(val)>>, val)

TextElems ==
    { El(8, 96, <<67,83>>, <<67, 84>>),                \* (0008,0060) CS "CT"
      El(8, 96, <<67,83>>, <<32, 32>>),                \* CS, two spaces
      El(8, 96, <<67,83>>, <<195, 169>>),              \* CS, U+00E9 in UTF-8
      El(16, 16, <<80,78>>, <<68, 79, 0, 32>>),        \* (0010,0010) PN "DO" NUL SP
      El(16, 16, <<80,78>>, <<65, 32, 66, 0>>),        \* PN "A B" NUL
      El(16, 16, <<80,78>>, <<195, 40>>) }             \* PN, not UTF-8

AmbiguousElems ==
    { El(40, 262, <<85,83>>, <<1, 0>>),                \* (0028,0106) US or SS
      El(40, 12294, <<79,87>>, <<65, 32>>),            \* (0028,3006) US or OW
      El(21504, 4112, <<79,87>>, <<66, 0>>) }          \* (5400,1010) OB or OW

ScalarElems ==
    { El(114, 122, <<85,83>>, <<1, 2>>),               \* (0072,007A) US, 2 bytes
      El(114, 122, <<85,83>>, <<1, 2, 3, 4>>),         \* US, 4 bytes
      El(114, 126, <<83,83>>, <<255, 255>>),           \* (0072,007E) SS, -1
      El(114, 126, <<83,83>>, <<5>>),                  \* SS, 1 byte
      El(114, 120, <<85,76>>, <<1, 2, 3, 4>>),         \* (0072,0078) UL
      El(114, 120, <<85,76>>, <<1, 2>>),               \* UL, 2 bytes
      El(114, 124, <<83,76>>, <<254, 255, 255, 255>>), \* (0072,007C) SL, -2
      El(114, 131, <<85,86>>, <<1, 2, 3, 4, 5, 6, 7, 8>>),  \* (0072,0083) UV
      El(114, 130, <<83,86>>, <<1, 2>>),               \* (0072,0082) SV, 2 bytes
      El(114, 118, <<70,76>>, <<0, 0, 128, 63>>),      \* (0072,0076) FL 1.0
      El(114, 116, <<70,68>>, <<0, 0, 128, 63>>),      \* (0072,0074) FD, 4 bytes
      El(114, 96, <<65,84>>, <<16, 0, 32, 0>>) }       \* (0072,0060) AT (0010,0020)

BinaryElems ==
    { El(114, 101, <<79,66>>, <<7, 0>>),               \* (0072,0065) OB
      El(114, 109, <<85,78>>, <<32, 0>>),              \* (0072,006D) UN
      El(114, 128, <<83,81>>, <<1, 2>>) }              \* (0072,0080) SQ

\* Elements present with zero length
EmptyElems ==
    { El(8, 96, <<67,83>>, <<>>),                      \* CS
      El(16, 16, <<80,78>>, <<>>),                     \* PN
      El(114, 101, <<79,66>>, <<>>),                   \* OB
      El(114, 109, <<85,78>>, <<>>),                   \* UN
      El(114, 122, <<85,83>>, <<>>),                   \* US
      El(114, 96, <<65,84>>, <<>>),                    \* AT
      El(114, 128, <<83,81>>, <<>>),                   \* SQ
      El(40, 262, <<85,83>>, <<>>),                    \* US or SS
      El(9, 16, <<76,79>>, <<>>),                      \* (0009,0010), private
      El(32736, 16, <<79,66>>, <<>>) }                 \* (7FE0,0010) pixel data

TypedAlphabet ==
    TextElems \cup AmbiguousElems \cup ScalarElems \cup BinaryElems \cup EmptyElems

TypedBuffers ==
    { FileBytes(Magic, m, els) :
        m \in { <<>>, << SopElem >> }, els \in SeqsUpTo(TypedAlphabet, MaxTyped) }

(***************************************************************************)
(* Inputs for the match on attr.vr taken alone: value bytes of the scalar  *)
(* widths 2, 4 and 8 and of other lengths, whose bytes differ so that the  *)
(* two byte orders give different numbers, some with the sign bit set.     *)
(***************************************************************************)

DecodeValues ==
    { <<>>, <<5>>, <<1, 2>>, <<255, 254>>, <<1, 2, 3>>, <<1, 2, 3, 4>>,
      <<254, 255, 255, 127>>, <<0, 0, 128, 191>>, <<1, 2, 3, 4, 5, 6>>,
      <<1, 2, 3, 4, 5, 6, 7, 8>>, <<255, 0, 0, 0, 0, 0, 240, 63>>,
      <<1, 2, 3, 4, 5, 6, 7, 8, 9, 10>> }

\* The transfer syntaxes ts_from_uid can return
TransferSyntaxes ==
    { ts_from_uid(UID_ImplicitLE), ts_from_uid(UID_ExplicitLE),
      ts_from_uid(UID_ExplicitBE) }

(***************************************************************************)
(* The inputs of the container's own interface                             *)
(***************************************************************************)

MaxElems == 2

String(s) == Some(Value("String", s))

ApiElems(cat) ==
    { e \in { DataElement(A_Modality, String(<<67, 84>>)),          \* "CT"
              DataElement(A_Modality, String(<<77, 82>>)),          \* "MR"
              DataElement(A_TransferSyntaxUID, String(<<49>>)),     \* "1"
              DataElement(A_PixelData, None) } :
        \E i \in 1..Len(ATTRIBUTES(cat)) : ATTRIBUTES(cat)[i] = e.attribute }

ApiMetas ==
    { <<>>,
      << DataElement(A_TransferSyntaxUID, String(<<50>>)) >>,       \* "2"
      << DataElement(A_MediaStorageSOPClassUID, String(<<51>>)),
         DataElement(A_TransferSyntaxUID, String(<<50>>)) >>,
      << DataElement(A_Modality, String(<<88, 65>>)) >> }           \* "XA"

ApiPixels == { <<1>>, <<2, 3>> }

Queries ==
    { A_Modality.tag, A_TransferSyntaxUID.tag, A_PixelData.tag,
      A_MediaStorageSOPClassUID.tag,
      <<48,48,48,56,48,48,54,48>>,                 \* "00080060"
      <<48,48,48,50,45,48,48,49,48>>,              \* "0002-0010"
      <<120,48,48,48,56,121,48,48,54,48>>,         \* "x0008y0060"
      <<40,48,48,48,57,44,48,48,49,48,41>>,        \* "(0009,0010)"
      A_Modality.keyword, A_TransferSyntaxUID.keyword, A_PixelData.keyword,
      A_MediaStorageSOPClassUID.keyword,
      <<32,109,111,100,97,108,105,116,121>>,       \* " modality"
      <<70,111,111>> }                             \* "Foo"

(***************************************************************************)
(* The state                                                               *)
(***************************************************************************)

VARIABLES
    cat,       \* which catalog the dictionary tables hold
    target,    \* the build: width of usize, overflow-checks
    fileOk,    \* whether File::open and read_to_end succeed
    buf,       \* buffer: the bytes of the file
    pc,        \* "start", "meta", "main", "done", "panic"; "api" for the container
    off,       \* the cursor
    ts,        \* the transfer syntax in force (endian, vr_mode)
    ds,        \* the Dataset under construction
    ret,       \* the returned Dataset: None until read_dicom returns
    stderr,    \* the diagnostics written by eprintln!
    site,      \* the return statement that ended read_dicom
    metaRead,  \* history: the group-0x0002 elements the File-Meta loop consumed
    walked,    \* history: the elements the main loop consumed
    got        \* the last Dataset::get: None, or Some([q, r])

vars == << cat, target, fileOk, buf, pc, off, ts, ds, ret, stderr, site, metaRead, walked, got >>

Seen(h, vo) == [group |-> h.group, element |-> h.element, vr |-> h.vr, len |-> h.len, voff |-> vo]

Init ==
    /\ cat \in Catalogs
    /\ target = Target64
    /\ \/ fileOk = TRUE /\ buf \in Buffers
       \/ fileOk = FALSE /\ buf = <<>>
    /\ pc = "start"
    /\ off = 0
    /\ ts = TransferSyntax("Little", "Explicit")
    /\ ds = Dataset_new
    /\ ret = None
    /\ stderr = <<>>
    /\ site = "none"
    /\ metaRead = <<>>
    /\ walked = <<>>
    /\ got = None

\* return <dataset>; at the statement named s
Return(d, s) ==
    /\ pc' = "done"
    /\ ret' = Some(d)
    /\ site' = s

\* if buffer.len() < 132
too_short(b) == Len(b) < 132

\* A check of the first three bytes of the magic only
bad_magic_three(b) == SubSeq(b, 129, 131) # SubSeq(Magic, 1, 3)

\* preamble != b"DICM", preamble being &buffer[128..132]
bad_magic(b) == SubSeq(b, 129, 132) # Magic

\* File::open or read_to_end fails: return Dataset::new()
OpenFails ==
    /\ pc = "start"
    /\ ~fileOk
    /\ Return(Dataset_new, "io error")
    /\ UNCHANGED << cat, target, fileOk, buf, off, ts, ds, stderr, metaRead, walked, got >>

\* The buffer is read; the length and magic checks
CheckPreamble ==
    /\ pc = "start"
    /\ fileOk
    /\ IF too_short(buf) THEN Return(Dataset_new, "too short") /\ off' = off
       ELSE IF bad_magic(buf) THEN Return(Dataset_new, "bad magic") /\ off' = off
       ELSE pc' = "meta" /\ off' = 132 /\ UNCHANGED << ret, site >>
    /\ UNCHANGED << cat, target, fileOk, buf, ts, ds, stderr, metaRead, walked, got >>

\* The history of the File-Meta loop is kept up to MaxLoop iterations
MaxLoop == 4

\* One iteration of the loop of parse_file_meta, and what read_dicom does
\* with the result when the loop ends
FileMetaStep ==
    /\ pc = "meta"
    /\ Len(metaRead) < MaxLoop
    /\ LET r == parse_file_meta_iter(target, buf, off)
       IN  IF r.k = "none"
           THEN /\ Return(Dataset_new, "file meta")
                /\ UNCHANGED << off, ts, ds, metaRead >>
           ELSE IF r.k = "panic"
           THEN /\ pc' = "panic"
                /\ UNCHANGED << off, ts, ds, ret, site, metaRead >>
           ELSE IF r.k = "break"
           THEN /\ pc' = "main"
                /\ off' = r.off
                /\ ts' = resolve_ts
                /\ ds' = Dataset_new
                /\ UNCHANGED << ret, site, metaRead >>
           ELSE /\ off' = r.off
                /\ metaRead' = Append(metaRead, Seen(r.hdr, r.voff))
                /\ UNCHANGED << pc, ts, ds, ret, site >>
    /\ UNCHANGED << cat, target, fileOk, buf, stderr, walked, got >>

\* One iteration of the main loop of read_dicom
WalkStep ==
    /\ pc = "main"
    /\ LET r == read_dicom_iter(target, cat, buf, off, ts, ds)
       IN  /\ stderr' = stderr \o r.diag
           /\ IF r.k = "break"
              THEN /\ Return(r.ds, IF r.diag = <<>> THEN "end of stream"
                                   ELSE "undefined length")
                   /\ UNCHANGED << off, ds, walked >>
              ELSE IF r.k = "return"
              THEN /\ Return(r.ds, "truncated value")
                   /\ UNCHANGED << off, ds, walked >>
              ELSE IF r.k = "panic"
              THEN /\ pc' = "panic"
                   /\ UNCHANGED << off, ds, walked, ret, site >>
              ELSE /\ off' = r.off
                   /\ ds' = r.ds
                   /\ walked' = Append(walked, Seen(r.hdr, r.voff))
                   /\ UNCHANGED << pc, ret, site >>
    /\ UNCHANGED << cat, target, fileOk, buf, ts, metaRead, got >>

Next == OpenFails \/ CheckPreamble \/ FileMetaStep \/ WalkStep

Spec == Init /\ [][Next]_vars

\* read_dicom is sequential code: while it has a step to take, it takes one.
\* Running is ENABLED <<Next>>_vars (every step of a running reader changes pc
\* or off), so Progress is WF_vars(Next) with the ENABLED written out
Running == pc \in {"start", "meta", "main"}

Progress == []<>(~Running) \/ []<><<Next>>_vars

SpecLive == Init /\ [][Next]_vars /\ Progress

\* The reader built for a target whose usize is 32 bits wide, with and
\* without overflow-checks, on the files with lengths next to 2^32
Init32 ==
    /\ cat \in Catalogs
    /\ target \in Targets32
    /\ \/ fileOk = TRUE /\ buf \in HugeBuffers
       \/ fileOk = FALSE /\ buf = <<>>
    /\ pc = "start"
    /\ off = 0
    /\ ts = TransferSyntax("Little", "Explicit")
    /\ ds = Dataset_new
    /\ ret = None
    /\ stderr = <<>>
    /\ site = "none"
    /\ metaRead = <<>>
    /\ walked = <<>>
    /\ got = None

Spec32 == Init32 /\ [][Next]_vars

\* The reader on the files with more than one pixel-data element
InitPixel ==
    /\ cat \in Catalogs
    /\ target = Target64
    /\ \/ fileOk = TRUE /\ buf \in PixelBuffers
       \/ fileOk = FALSE /\ buf = <<>>
    /\ pc = "start"
    /\ off = 0
    /\ ts = TransferSyntax("Little", "Explicit")
    /\ ds = Dataset_new
    /\ ret = None
    /\ stderr = <<>>
    /\ site = "none"
    /\ metaRead = <<>>
    /\ walked = <<>>
    /\ got = None

SpecPixel == InitPixel /\ [][Next]_vars

\* The reader on the files of the typed decode
InitTyped ==
    /\ cat \in Catalogs
    /\ target = Target64
    /\ \/ fileOk = TRUE /\ buf \in TypedBuffers
       \/ fileOk = FALSE /\ buf = <<>>
    /\ pc = "start"
    /\ off = 0
    /\ ts = TransferSyntax("Little", "Explicit")
    /\ ds = Dataset_new
    /\ ret = None
    /\ stderr = <<>>
    /\ site = "none"
    /\ metaRead = <<>>
    /\ walked = <<>>
    /\ got = None

SpecTyped == InitTyped /\ [][Next]_vars

(***************************************************************************)
(* The match on attr.vr of read_dicom taken alone: one value, held in buf, *)
(* decoded for one attribute of the dictionary under one transfer syntax,  *)
(* and pushed as read_dicom pushes it.                                     *)
(***************************************************************************)

InitDecode ==
    /\ cat \in Catalogs
    /\ target = Target64
    /\ fileOk = TRUE
    /\ buf \in DecodeValues
    /\ pc = "decode"
    /\ off = 0
    /\ ts \in TransferSyntaxes
    /\ ds = Dataset_new
    /\ ret = None
    /\ stderr = <<>>
    /\ site = "none"
    /\ metaRead = <<>>
    /\ walked = <<>>
    /\ got = None

\* let parsed_value = match attr.vr { .. }; ds.push(DataElement { .. })
Decode ==
    /\ pc = "decode"
    /\ \E i \in 1..Len(ATTRIBUTES(cat)) :
          ds' = push(ds, DataElement(ATTRIBUTES(cat)[i],
                                     Some(parse_value(ATTRIBUTES(cat)[i], buf, ts))))
    /\ pc' = "decoded"
    /\ UNCHANGED << cat, target, fileOk, buf, off, ts, ret, stderr, site, metaRead, walked, got >>

NextDecode == Decode

SpecDecode == InitDecode /\ [][NextDecode]_vars

(***************************************************************************)
(* read_elem_header taken alone: one call on a buffer holding up to 12     *)
(* header bytes after up to MaxShift other bytes, from a cursor at or      *)
(* before the header, in each byte order and VR mode.  The cursor before   *)
(* the call is kept in got, the header returned in walked.                 *)
(***************************************************************************)

MaxShift == 2

\* Bytes 5 and 6 of a header: the six long VRs; CS, US, UI; OD, OL, UC (long
\* in the standard, not in the list of the code); "ob"; 02 00
HeaderVrBytes ==
    { <<79,66>>, <<79,87>>, <<79,70>>, <<83,81>>, <<85,84>>, <<85,78>>,
      <<67,83>>, <<85,83>>, <<85,73>>, <<79,68>>, <<79,76>>, <<85,67>>,
      <<111,98>>, <<2,0>> }

\* (0008,0060) and (7FE0,0010) in Little Endian, i.e. (0800,6000) and
\* (E07F,1000) in Big Endian
HeaderTagBytes == { <<8, 0, 96, 0>>, <<224, 127, 16, 0>> }

HeaderTailBytes == { <<1, 2, 3, 4, 5, 6>>, <<0, 0, 254, 255, 255, 255>> }

HeaderBuffers ==
    { SubSeq(p \o t \o v \o r, 1, Len(p) + 12 - c) :
        p \in { [i \in 1..n |-> 9] : n \in 0..MaxShift },
        t \in HeaderTagBytes, v \in HeaderVrBytes, r \in HeaderTailBytes,
        c \in 0..MaxCut }

InitHeader ==
    /\ cat = 1
    /\ target = Target64
    /\ fileOk = TRUE
    /\ buf \in HeaderBuffers
    /\ pc = "header"
    /\ off \in 0..MaxShift
    /\ ts \in { TransferSyntax(e, m) : e \in {"Little", "Big"}, m \in {"Explicit", "Implicit"} }
    /\ ds = Dataset_new
    /\ ret = None
    /\ stderr = <<>>
    /\ site = "none"
    /\ metaRead = <<>>
    /\ walked = <<>>
    /\ got = None

\* read_elem_header(buf, &mut off, endian, vr_mode)
ReadHeader ==
    /\ pc = "header"
    /\ LET r == read_elem_header(buf, off, ts.endian, ts.vr_mode)
       IN  /\ off' = r.off
           /\ got' = Some(off)
           /\ IF r.ok
              THEN pc' = "some" /\ walked' = << Seen(r.hdr, r.off) >>
              ELSE pc' = "none" /\ walked' = walked
    /\ UNCHANGED << cat, target, fileOk, buf, ts, ds, ret, stderr, site, metaRead >>

NextHeader == ReadHeader

SpecHeader == InitHeader /\ [][NextHeader]_vars

(***************************************************************************)
(* normalize_tag taken alone: one string, held in buf, normalised (the     *)
(* result kept in got) and the result normalised again (kept in ret).      *)
(* The strings: white space, "(", a group, a separator, an element, ")",   *)
(* white space, each part optional, plus keywords and degenerate strings.  *)
(***************************************************************************)

MaxPad == 2

\* " " and TAB, up to MaxPad of them
Pads == SeqsUpTo({32, 9}, MaxPad)

\* "0010", "7fE0", "7FE0", "001", "00100"
TagGroups ==
    { <<48,48,49,48>>, <<55,102,69,48>>, <<55,70,69,48>>, <<48,48,49>>,
      <<48,48,49,48,48>> }

\* "0010", "abCD", "001G"
TagElements == { <<48,48,49,48>>, <<97,98,67,68>>, <<48,48,49,71>> }

\* "", ",", "-", " ", ", "
TagSeparators == { <<>>, <<44>>, <<45>>, <<32>>, <<44,32>> }

TagStrings ==
    { l \o o \o g \o sep \o e \o c \o t :
        l \in Pads, o \in { <<>>, <<40>> }, g \in TagGroups,
        sep \in TagSeparators, e \in TagElements,
        c \in { <<>>, <<41>> }, t \in Pads }
    \cup { l \o w \o t :
             l \in Pads, t \in Pads,
             w \in { <<>>, <<40,44,41>>, <<40,41>>, A_PatientName.keyword,
                     A_MediaStorageSOPClassUID.keyword, A_Modality.keyword } }

InitNorm ==
    /\ cat = 1
    /\ target = Target64
    /\ fileOk = TRUE
    /\ buf \in TagStrings
    /\ pc = "norm"
    /\ off = 0
    /\ ts = TransferSyntax("Little", "Explicit")
    /\ ds = Dataset_new
    /\ ret = None
    /\ stderr = <<>>
    /\ site = "none"
    /\ metaRead = <<>>
    /\ walked = <<>>
    /\ got = None

\* normalize_tag(x)
Normalize ==
    /\ pc = "norm"
    /\ got' = Some(normalize_tag(buf))
    /\ pc' = "normalized"
    /\ UNCHANGED << cat, target, fileOk, buf, off, ts, ds, ret, stderr, site, metaRead, walked >>

\* normalize_tag(normalize_tag(x))
NormalizeAgain ==
    /\ pc = "normalized"
    /\ ret' = Some(normalize_tag(Unwrap(got)))
    /\ pc' = "renormalized"
    /\ UNCHANGED << cat, target, fileOk, buf, off, ts, ds, stderr, site, metaRead, walked, got >>

NextNorm == Normalize \/ NormalizeAgain

SpecNorm == InitNorm /\ [][NextNorm]_vars

(***************************************************************************)
(* The container used through its own interface.  Dataset::get returns a   *)
(* reference into the Dataset: the borrow ends before the next &mut self   *)
(* call, so a mutation forgets the last result.                            *)
(***************************************************************************)

InitApi ==
    /\ cat \in Catalogs
    /\ target = Target64
    /\ fileOk = TRUE
    /\ buf = <<>>
    /\ pc = "api"
    /\ off = 0
    /\ ts = TransferSyntax("Little", "Explicit")
    /\ ds = Dataset_new
    /\ ret = None
    /\ stderr = <<>>
    /\ site = "none"
    /\ metaRead = <<>>
    /\ walked = <<>>
    /\ got = None

ApiRest == << cat, target, fileOk, buf, pc, off, ts, ret, stderr, site, metaRead, walked >>

ApiSetFileMeta ==
    /\ pc = "api"
    /\ \E meta \in ApiMetas : ds' = set_file_meta(ds, meta)
    /\ got' = None
    /\ UNCHANGED ApiRest

ApiPush ==
    /\ pc = "api"
    /\ Len(ds.data_elements) < MaxElems
    /\ \E e \in ApiElems(cat) : ds' = push(ds, e)
    /\ got' = None
    /\ UNCHANGED ApiRest

ApiSetPixelData ==
    /\ pc = "api"
    /\ \E data \in ApiPixels : ds' = set_pixel_data(ds, data)
    /\ got' = None
    /\ UNCHANGED ApiRest

ApiGet ==
    /\ pc = "api"
    /\ \E q \in Queries : got' = Some([q |-> q, r |-> get(cat, ds, q)])
    /\ UNCHANGED << ApiRest, ds >>

NextApi == ApiSetFileMeta \/ ApiPush \/ ApiSetPixelData \/ ApiGet

SpecApi == InitApi /\ [][NextApi]_vars

(***************************************************************************)
(* Properties                                                              *)
(***************************************************************************)

\* The Dataset at hand: the returned one once read_dicom has returned
Cur == IF IsSome(ret) THEN Unwrap(ret) ELSE ds

\* The value bytes of a consumed element
ValueOf(w) == SubSeq(buf, w.voff + 1, w.voff + AsUsize(w.len))

\* The File-Meta scan ended at a header outside group 0x0002
MetaComplete == pc = "main" \/ (pc = "done" /\ site \in {"end of stream", "undefined length", "truncated value"})

IsTsSeen(w) == w.group = 2 /\ w.element = 16

\* The transfer syntax section 4.5 prescribes for the File Meta that was read
AnnouncedTs ==
    LET t == SelectSeq(metaRead, IsTsSeen)
    IN  IF t = <<>> THEN TransferSyntax("Little", "Implicit")
        ELSE LET uid == trim_end_matches(ValueOf(t[Len(t)]))
             IN  IF uid = UID_ImplicitLE THEN TransferSyntax("Little", "Implicit")
                 ELSE IF uid = UID_ExplicitLE THEN TransferSyntax("Little", "Explicit")
                 ELSE IF uid = UID_ExplicitBE THEN TransferSyntax("Big", "Explicit")
                 ELSE TransferSyntax("Little", "Explicit")

\* C1: once File Meta is parsed, the transfer syntax of the main dataset is the
\* one selected by the trimmed value of (0002,0010): Implicit LE, Explicit LE or
\* Explicit BE for the three listed UIDs, Explicit LE for any other UID, and
\* Implicit LE only when File Meta holds no (0002,0010).
C1_TransferSyntaxFromUid == pc = "main" => ts = AnnouncedTs

\* C2: when File Meta is parsed without truncation, file_meta() of the returned
\* Dataset holds one element per group-0x0002 element read, in stream order.
C2_FileMetaPreserved ==
    (pc = "done" /\ MetaComplete) =>
        /\ Len(Unwrap(ret).file_meta) = Len(metaRead)
        /\ \A i \in 1..Len(metaRead) :
              Unwrap(ret).file_meta[i].attribute.tag = tag_str(metaRead[i])

\* The buffer is shorter than 132 bytes or bytes 128..131 are not "DICM"
NotPart10 == Len(buf) < 132 \/ SubSeq(buf, 129, 132) # <<68, 73, 67, 77>>

\* C3: for a buffer shorter than 132 bytes or without "DICM" at 128..131, read
\* never enters the File-Meta scan and returns an empty Dataset: no elements,
\* no file meta, no pixel data.
C3_NotPart10Empty ==
    NotPart10 =>
        /\ pc \in {"start", "done"}
        /\ pc = "done" =>
              /\ Unwrap(ret).data_elements = <<>>
              /\ Unwrap(ret).file_meta = <<>>
              /\ Unwrap(ret).pixel_data = None

\* A buffer with a wrong magic and element bytes after it has been read
C3_Witness ==
    /\ pc = "done"
    /\ fileOk
    /\ Len(buf) > 140
    /\ SubSeq(buf, 129, 132) # <<68, 73, 67, 77>>
    /\ ret = Some(Dataset_new)

\* The header the main loop reads at the cursor
HeaderHere == read_elem_header(buf, off, ts.endian, ts.vr_mode)

\* cursor + len > buffer length, the cursor being just after the header
Overruns(h, o) == h.len[1] >= 32768 \/ h.len[1] * 65536 + h.len[2] > Len(buf) - o

\* The main loop is at a header whose declared length overruns the buffer
AtTruncatedValue ==
    /\ pc = "main"
    /\ off + 8 <= Len(buf)
    /\ HeaderHere.ok
    /\ Overruns(HeaderHere.hdr, HeaderHere.off)

AtUndefinedLength ==
    /\ pc = "main"
    /\ off + 8 <= Len(buf)
    /\ HeaderHere.ok
    /\ HeaderHere.hdr.len = << 65535, 65535 >>

\* C5: when the main loop reads a header with len = 0xFFFFFFFF, read returns in
\* that step with the Dataset accumulated before the header; no element is
\* consumed for that header and nothing after it is decoded.
C5_UndefinedLengthStops ==
    [][AtUndefinedLength => (pc' = "done" /\ ret' = Some(ds) /\ walked' = walked)]_vars

\* An undefined-length header was met after an appended element, with bytes
\* left after the header
C5_Witness ==
    /\ pc = "done"
    /\ site = "undefined length"
    /\ Len(Unwrap(ret).data_elements) >= 1
    /\ Len(buf) > off + 8

\* The header the File-Meta loop reads at the cursor (Explicit VR Little Endian)
MetaHeaderHere == read_elem_header(buf, off, "Little", "Explicit")

\* The File-Meta loop cannot read a complete header, or reads a group-0x0002
\* header whose declared length overruns the buffer
AtMetaTruncation ==
    /\ pc = "meta"
    /\ \/ ~MetaHeaderHere.ok
       \/ /\ MetaHeaderHere.hdr.group = 2
          /\ Overruns(MetaHeaderHere.hdr, MetaHeaderHere.off)

C6_WitnessHeader ==
    /\ pc = "done"
    /\ site = "file meta"
    /\ Len(metaRead) >= 1
    /\ ~MetaHeaderHere.ok
    /\ off < Len(buf)

\* The number a hex digit character stands for
HexVal(c) == IF c <= 57 THEN c - 48 ELSE c - 55

IsUpperHex(c) == (c >= 48 /\ c <= 57) \/ (c >= 65 /\ c <= 70)

\* "(GGGG,EEEE)": 11 characters, upper-case hex digits
IsCanonical(tag) ==
    /\ Len(tag) = 11
    /\ tag[1] = 40 /\ tag[6] = 44 /\ tag[11] = 41
    /\ \A i \in {2, 3, 4, 5, 7, 8, 9, 10} : IsUpperHex(tag[i])

\* The group and the element a canonical tag string names
TagGroup(tag) ==
    HexVal(tag[2]) * 4096 + HexVal(tag[3]) * 256 + HexVal(tag[4]) * 16 + HexVal(tag[5])

TagElement(tag) ==
    HexVal(tag[7]) * 4096 + HexVal(tag[8]) * 256 + HexVal(tag[9]) * 16 + HexVal(tag[10])

\* The catalog holds an attribute with the tag of the consumed element w
InDictionary(w) ==
    \E i \in 1..Len(ATTRIBUTES(cat)) :
        /\ TagGroup(ATTRIBUTES(cat)[i].tag) = w.group
        /\ TagElement(ATTRIBUTES(cat)[i].tag) = w.element

\* The consumed elements whose tag is in the dictionary, in stream order
Known == SelectSeq(walked, InDictionary)

\* C7: at every step of the walk, elements() lists exactly the fully read
\* elements whose tag is in the dictionary, in the order of the byte stream;
\* an element with an unknown tag adds nothing and the walk goes on after it.
C7_ElementsInStreamOrder ==
    /\ Len(Cur.data_elements) = Len(Known)
    /\ \A i \in 1..Len(Known) :
          /\ TagGroup(Cur.data_elements[i].attribute.tag) = Known[i].group
          /\ TagElement(Cur.data_elements[i].attribute.tag) = Known[i].element
    /\ \A i \in 1..(Len(walked) - 1) :
          walked[i].voff + AsUsize(walked[i].len) < walked[i + 1].voff

\* An element with an unknown tag was skipped and a later, known one appended
C7_Witness ==
    /\ \E i \in 1..Len(walked) : \E j \in (i + 1)..Len(walked) :
          /\ ~InDictionary(walked[i])
          /\ walked[i].len # <<0, 0>>
          /\ InDictionary(walked[j])
    /\ Len(Cur.data_elements) >= 1

\* C8: for every element e of file_meta() and elements(), attribute_by_tag of
\* e.attribute.tag is that attribute, and the tag of the i-th element is the
\* canonical "(GGGG,EEEE)" string of the group and element of the header it
\* was decoded from.
C8_AttributeOfItsTag ==
    /\ \A i \in 1..Len(Cur.file_meta) :
          attribute_by_tag(cat, Cur.file_meta[i].attribute.tag)
              = Some(Cur.file_meta[i].attribute)
    /\ \A i \in 1..Len(Cur.data_elements) :
          LET a == Cur.data_elements[i].attribute
          IN  /\ attribute_by_tag(cat, a.tag) = Some(a)
              /\ i <= Len(Known)
              /\ IsCanonical(a.tag)
              /\ TagGroup(a.tag) = Known[i].group
              /\ TagElement(a.tag) = Known[i].element

\* A returned Dataset with two elements of different attributes
C8_Witness ==
    /\ pc = "done"
    /\ Len(Unwrap(ret).data_elements) = 2
    /\ Unwrap(ret).data_elements[1].attribute # Unwrap(ret).data_elements[2].attribute

\* The main loop is at a (7FE0,0010) header of defined length within the buffer
AtPixelData ==
    /\ pc = "main"
    /\ off + 8 <= Len(buf)
    /\ HeaderHere.ok
    /\ HeaderHere.hdr.group = 32736
    /\ HeaderHere.hdr.element = 16
    /\ HeaderHere.hdr.len # << 65535, 65535 >>
    /\ ~Overruns(HeaderHere.hdr, HeaderHere.off)

\* The attribute of tag "(7FE0,0010)" in the catalog, if any
PixelAttrs ==
    { ATTRIBUTES(cat)[i] : i \in { j \in 1..Len(ATTRIBUTES(cat)) :
          ATTRIBUTES(cat)[j].tag = <<40,55,70,69,48,44,48,48,49,48,41>> } }

\* C9: consuming a defined-length (7FE0,0010) element makes pixel_data() that
\* element's value bytes and appends, if the dictionary holds the pixel-data
\* attribute, exactly one element of that attribute with value absent.
C9_PixelDataRouted ==
    [][AtPixelData =>
         LET h == HeaderHere
             bytes == SubSeq(buf, h.off + 1, h.off + AsUsize(h.hdr.len))
         IN  /\ pc' = "main"
             /\ ds'.pixel_data = Some(bytes)
             /\ ds'.file_meta = ds.file_meta
             /\ ds'.data_elements =
                   IF PixelAttrs = {} THEN ds.data_elements
                   ELSE Append(ds.data_elements,
                               [attribute |-> CHOOSE a \in PixelAttrs : TRUE,
                                value |-> None])]_vars

\* Pixel data was consumed after another element: the slot holds its two
\* bytes and the last element is the valueless pixel-data entry
C9_Witness ==
    /\ pc \in {"main", "done"}
    /\ Cur.pixel_data = Some(<<7, 9>>)
    /\ Len(Cur.data_elements) = 2
    /\ Cur.data_elements[2] = [attribute |-> A_PixelData, value |-> None]

\* The pixel-data attribute is not in the dictionary: the slot is set and no
\* element is appended
C9_WitnessNoAttribute ==
    /\ pc \in {"main", "done"}
    /\ Cur.pixel_data = Some(<<7, 9>>)
    /\ Cur.data_elements = <<>>

\* The first element of file meta followed by the main elements with that tag
FirstWithTag(d, tag) ==
    LET all == d.file_meta \o d.data_elements
        hits == { i \in 1..Len(all) : all[i].attribute.tag = tag }
    IN  IF hits = {} THEN None
        ELSE Some(all[CHOOSE i \in hits : \A j \in hits : i <= j])

\* C10: get(x) resolves x as a tag first and returns the first element with that
\* attribute's tag, file meta before main elements, or absent; it resolves x as
\* a keyword only when the tag resolution misses; absent when both miss.
C10_GetTagThenKeyword ==
    IsSome(got) =>
        LET q == Unwrap(got).q
            a == attribute_by_tag(cat, q)
            k == attribute_by_keyword(cat, q)
        IN  Unwrap(got).r =
                IF IsSome(a) THEN FirstWithTag(ds, Unwrap(a).tag)
                ELSE IF IsSome(k) THEN FirstWithTag(ds, Unwrap(k).tag)
                ELSE None

\* A get by tag found the element in file meta while a main element with the
\* same tag and another value exists
C10_Witness ==
    /\ IsSome(got)
    /\ IsSome(attribute_by_tag(cat, Unwrap(got).q))
    /\ IsSome(Unwrap(got).r)
    /\ \E i \in 1..Len(ds.file_meta) : ds.file_meta[i] = Unwrap(Unwrap(got).r)
    /\ \E i \in 1..Len(ds.data_elements) :
          /\ ds.data_elements[i].attribute = Unwrap(Unwrap(got).r).attribute
          /\ ds.data_elements[i] # Unwrap(Unwrap(got).r)

\* A get by keyword, the tag resolution having missed, found an element
C10_WitnessKeyword ==
    /\ IsSome(got)
    /\ ~IsSome(attribute_by_tag(cat, Unwrap(got).q))
    /\ IsSome(attribute_by_keyword(cat, Unwrap(got).q))
    /\ IsSome(Unwrap(got).r)

\* The Dataset holds an element of attribute a, in file meta or main elements
HoldsElementOf(d, a) ==
    \/ \E i \in 1..Len(d.file_meta) : d.file_meta[i].attribute = a
    \/ \E i \in 1..Len(d.data_elements) : d.data_elements[i].attribute = a

\* C11: for every dictionary attribute A and every Dataset holding an element
\* of A, get(A.keyword) and get(A.tag) return an element whose attribute is A:
\* the tag-first normalization of a keyword (its hex-digit characters, taken
\* as a tag when there are exactly 8) never makes the lookup return another
\* attribute's element or absent.
C11_GetByKeywordAndTag ==
    IsSome(got) =>
        \A i \in 1..Len(ATTRIBUTES(cat)) :
            LET A == ATTRIBUTES(cat)[i]
            IN  (Unwrap(got).q \in {A.keyword, A.tag} /\ HoldsElementOf(ds, A)) =>
                    /\ IsSome(Unwrap(got).r)
                    /\ Unwrap(Unwrap(got).r).attribute = A

\* A get by a keyword that has exactly 8 hex-digit characters
\* ("MediaStorageSOPClassUID": e d a a e C a D), so that the tag arm looks up
\* "(EDAA,ECAD)" first, found its element
C11_Witness ==
    /\ IsSome(got)
    /\ Unwrap(got).q = A_MediaStorageSOPClassUID.keyword
    /\ normalize_tag(Unwrap(got).q) = <<40,69,68,65,65,44,69,67,65,68,41>>
    /\ IsSome(Unwrap(got).r)
    /\ Unwrap(Unwrap(got).r).attribute = A_MediaStorageSOPClassUID

\* A get by a canonical tag found its element among the main elements
C11_WitnessTag ==
    /\ IsSome(got)
    /\ Unwrap(got).q = A_Modality.tag
    /\ IsSome(Unwrap(got).r)
    /\ Unwrap(Unwrap(got).r).attribute = A_Modality
    /\ ds.file_meta = <<>>

\* The 17 textual VRs and the three ambiguous VRs
TextualVrs == {"Ae", "As", "Cs", "Da", "Ds", "Dt", "Is", "Lo", "Lt", "Pn", "Sh",
               "St", "Tm", "Uc", "Ui", "Ur", "Ut"}

AmbiguousVrs == {"ObOrOw", "UsOrOw", "UsOrSs"}

\* The binary VRs of the VR table
BinaryVrs == {"Ob", "Od", "Of", "Ol", "Ov", "Ow", "Un"}

\* s without its trailing NUL and space characters
WithoutTrailingPadding(s) ==
    LET keep == { i \in 1..Len(s) : s[i] \notin {0, 32} }
        k == IF keep = {} THEN 0 ELSE CHOOSE i \in keep : \A j \in keep : j <= i
    IN  SubSeq(s, 1, k)

\* The text of a value: its bytes without trailing padding, empty when the
\* bytes are not valid text
TextOf(bytes) == WithoutTrailingPadding(IF IsUtf8(bytes) THEN bytes ELSE <<>>)

IsPixelTag(w) == w.group = 32736 /\ w.element = 16

\* The i-th appended element was decoded from a header other than pixel data
\* and its dictionary VR is in the set S
DecodedWithVr(i, S) ==
    /\ i <= Len(Known)
    /\ ~IsPixelTag(Known[i])
    /\ IsSome(Cur.data_elements[i].attribute.vr)
    /\ Unwrap(Cur.data_elements[i].attribute.vr) \in S

\* C12: every element whose dictionary VR is textual or one of the ambiguous
\* VRs (OB-or-OW, US-or-OW, US-or-SS) is appended with a String value: the
\* value bytes without trailing NUL and space, empty when they are not valid
\* text.
C12_TextAndAmbiguousAreStrings ==
    \A i \in 1..Len(Cur.data_elements) :
        DecodedWithVr(i, TextualVrs \cup AmbiguousVrs) =>
            Cur.data_elements[i].value
                = Some([kind |-> "String", v |-> TextOf(ValueOf(Known[i]))])

\* The same for the 17 textual VRs alone
C12_TextualAreStrings ==
    \A i \in 1..Len(Cur.data_elements) :
        DecodedWithVr(i, TextualVrs) =>
            Cur.data_elements[i].value
                = Some([kind |-> "String", v |-> TextOf(ValueOf(Known[i]))])

\* An element of an ambiguous VR was appended, and its value is not a String
C12_Witness ==
    /\ pc = "done"
    /\ Len(Cur.data_elements) = 1
    /\ DecodedWithVr(1, AmbiguousVrs)
    /\ ValueOf(Known[1]) # <<>>
    /\ IsSome(Cur.data_elements[1].value)
    /\ Unwrap(Cur.data_elements[1].value).kind # "String"

\* A textual element with trailing padding was appended
C12_WitnessTextual ==
    /\ pc = "done"
    /\ Len(Cur.data_elements) = 1
    /\ DecodedWithVr(1, TextualVrs)
    /\ Cur.data_elements[1].value = Some([kind |-> "String", v |-> <<68, 79>>])
    /\ ValueOf(Known[1]) = <<68, 79, 0, 32>>

\* The i-th appended element was decoded from a header of length 0 that is
\* not pixel data
DecodedFromEmpty(i) ==
    /\ i <= Len(Known)
    /\ ~IsPixelTag(Known[i])
    /\ Known[i].len = <<0, 0>>

C14_WitnessBinary ==
    /\ pc = "done"
    /\ Len(Cur.data_elements) = 1
    /\ DecodedFromEmpty(1)
    /\ DecodedWithVr(1, BinaryVrs)
    /\ Cur.data_elements[1].value = Some([kind |-> "Data", v |-> <<>>])

\* A zero-length element of a scalar, sequence or ambiguous VR was appended with
\* zero-length Data, which is not the kind its VR suggests
C14_WitnessOtherVrs ==
    /\ pc = "done"
    /\ Len(Cur.data_elements) = 1
    /\ DecodedFromEmpty(1)
    /\ Cur.data_elements[1].value = Some([kind |-> "Data", v |-> <<>>])
    /\ suggested_value_kind(Unwrap(Cur.data_elements[1].attribute.vr)) # "Data"

\* The 16-bit number of bytes i and i+1 of the decoded value, in the byte
\* order of the transfer syntax
Word(i) ==
    IF ts.endian = "Little" THEN buf[i] + 256 * buf[i + 1]
    ELSE 256 * buf[i] + buf[i + 1]

\* The 16-bit digits of the number in the first w bytes of the value, most
\* significant digit first
Digits(w) ==
    IF ts.endian = "Little"
    THEN [k \in 1..(w \div 2) |-> Word(w - 2 * k + 1)]
    ELSE [k \in 1..(w \div 2) |-> Word(2 * k - 1)]

\* The signed number of a sequence of one or two 16-bit digits
Signed(d) ==
    LET top == IF d[1] >= 32768 THEN d[1] - 65536 ELSE d[1]
    IN  IF Len(d) = 1 THEN top ELSE top * 65536 + d[2]

\* The width in bytes of a scalar VR
ScalarWidth(vr) ==
    IF vr \in {"Us", "Ss"} THEN 2
    ELSE IF vr \in {"Ul", "Sl", "Fl", "At"} THEN 4
    ELSE 8

\* The scalar variant of a scalar VR and what it holds for the value in buf
ScalarOf(vr) ==
    IF vr = "Us" THEN [kind |-> "UInt16", v |-> Digits(2)]
    ELSE IF vr = "Ss" THEN [kind |-> "Int16", v |-> << Signed(Digits(2)) >>]
    ELSE IF vr = "Ul" THEN [kind |-> "UInt32", v |-> Digits(4)]
    ELSE IF vr = "Sl" THEN [kind |-> "Int32", v |-> << Signed(Digits(4)) >>]
    ELSE IF vr = "Uv" THEN [kind |-> "UInt64", v |-> Digits(8)]
    ELSE IF vr = "Sv" THEN [kind |-> "Int64", v |-> Digits(8)]
    ELSE IF vr = "Fl" THEN [kind |-> "Float", v |-> Digits(4)]
    ELSE IF vr = "Fd" THEN [kind |-> "Double", v |-> Digits(8)]
    ELSE [kind |-> "Tag", v |-> << Word(1), Word(3) >>]

ScalarVrs == {"Us", "Ss", "Ul", "Sl", "Uv", "Sv", "Fl", "Fd", "At"}

\* C13: for a dictionary VR among US, SS, UL, SL, UV, SV, FL, FD, AT the decoded
\* value is the scalar variant of the VR, read in the byte order of the
\* transfer syntax, exactly when the value length is the scalar width (2, 2,
\* 4, 4, 8, 8, 4, 8, 4), and otherwise Data holding the value bytes unchanged.
C13_ScalarOrData ==
    pc = "decoded" =>
        LET e == ds.data_elements[1]
            vr == Unwrap(e.attribute.vr)
        IN  (IsSome(e.attribute.vr) /\ vr \in ScalarVrs) =>
                e.value = IF Len(buf) = ScalarWidth(vr)
                          THEN Some(ScalarOf(vr))
                          ELSE Some([kind |-> "Data", v |-> buf])

\* A two-byte value FF FE decoded as SS in big endian: Int16(-2)
C13_Witness ==
    /\ pc = "decoded"
    /\ ts.endian = "Big"
    /\ buf = <<255, 254>>
    /\ ds.data_elements[1].attribute.vr = Some("Ss")
    /\ ds.data_elements[1].value = Some([kind |-> "Int16", v |-> << -2 >>])

\* A four-byte value decoded as US: Data with the four bytes
C13_WitnessData ==
    /\ pc = "decoded"
    /\ buf = <<1, 2, 3, 4>>
    /\ ds.data_elements[1].attribute.vr = Some("Us")
    /\ ds.data_elements[1].value = Some([kind |-> "Data", v |-> <<1, 2, 3, 4>>])

\* An eight-byte value decoded as UV in little endian
C13_WitnessLittle ==
    /\ pc = "decoded"
    /\ ts.endian = "Little"
    /\ buf = <<1, 2, 3, 4, 5, 6, 7, 8>>
    /\ ds.data_elements[1].attribute.vr = Some("Uv")
    /\ ds.data_elements[1].value = Some([kind |-> "UInt64", v |-> <<2055, 1541, 1027, 513>>])

\* One iteration of a loop either leaves the loop or moves the cursor forward
\* by at least the 8 bytes of a header; the File-Meta loop is left for the
\* main loop or for a return, the main loop for a return; the main loop is
\* left at once when fewer than 8 bytes remain
LoopProgress ==
    /\ (pc = "meta" /\ pc' = "meta") => off' >= off + 8
    /\ (pc = "main" /\ pc' = "main") => off' >= off + 8
    /\ (pc = "meta" /\ pc' # "meta") => pc' \in {"main", "done"}
    /\ (pc = "main" /\ pc' # "main") => pc' = "done"
    /\ (pc = "main" /\ off + 8 > Len(buf)) => pc' = "done"
    /\ pc' = "done" => IsSome(ret')

\* C15: every iteration of the File-Meta loop and of the main loop leaves its
\* loop or moves the cursor forward by at least the 8-byte header, the main
\* loop is left as soon as fewer than 8 bytes remain, and a read that is over
\* has returned a Dataset (so that the read of a finite buffer terminates).
C15_LoopAdvances == [][LoopProgress]_vars

\* Without overflow-checks a File-Meta iteration has moved the cursor backward
C15_Witness ==
    /\ ~target.overflow_checks
    /\ pc = "meta"
    /\ Len(metaRead) >= 2
    /\ off < metaRead[Len(metaRead)].voff
    /\ metaRead[Len(metaRead)].voff <= metaRead[1].voff

\* On a target with a 64-bit usize: the loops advance as C15 says and the
\* read of every buffer terminates and returns a Dataset
C15_ReadTerminates ==
    /\ [][LoopProgress]_vars
    /\ <>(pc = "done" /\ IsSome(ret))

\* The read returned after two File-Meta iterations and at least one
\* main-loop iteration, with some but fewer than 8 bytes left
C15_WitnessEnd ==
    /\ pc = "done"
    /\ site = "end of stream"
    /\ Len(metaRead) = 2
    /\ Len(walked) >= 1
    /\ off < Len(buf)
    /\ off + 8 > Len(buf)

(***************************************************************************)
(* C20: the cursor and every slice stay inside the buffer                  *)
(***************************************************************************)

\* The value [voff, voff + len) of a consumed element lies inside the buffer,
\* the sum taken in the integers
ValueInside(w) == w.len[1] < 32768 /\ w.voff + AsUsize(w.len) <= Len(buf)

\* read_u16 and read_u32 at the cursor, in byte order e
PrimitivesAtCursor(e) ==
    LET r2 == read_u16(buf, off, e)
        r4 == read_u32(buf, off, e)
    IN  /\ IF Len(buf) - off < 2 THEN ~r2.ok /\ r2.off = off
           ELSE r2.ok /\ r2.off = off + 2
        /\ IF Len(buf) - off < 4 THEN ~r4.ok /\ r4.off = off
           ELSE r4.ok /\ r4.off = off + 4

\* C20: in every reachable state of a parse the cursor is at most the buffer
\* length, no read outside the buffer is attempted (the reader never panics),
\* every value consumed lies inside the buffer with cursor + len taken without
\* wrap-around, and read_u16 / read_u32 at the cursor return absent with the
\* cursor unchanged when fewer than 2 / 4 bytes remain and otherwise advance
\* it by exactly 2 / 4.
C20_CursorInBounds ==
    /\ off <= Len(buf)
    /\ pc # "panic"
    /\ \A i \in 1..Len(metaRead) : ValueInside(metaRead[i])
    /\ \A i \in 1..Len(walked) : ValueInside(walked[i])
    /\ \A e \in {"Little", "Big"} : PrimitivesAtCursor(e)

\* The part of C20 about read_u16 and read_u32 alone
C20_Primitives == \A e \in {"Little", "Big"} : PrimitivesAtCursor(e)

\* A File-Meta element declaring 0xFFFFFFF4 bytes was consumed without
\* overflow-checks, and the cursor is back at the element's first byte
C20_Witness ==
    /\ ~target.overflow_checks
    /\ pc = "meta"
    /\ Len(metaRead) >= 1
    /\ metaRead[Len(metaRead)].len = <<65535, 65524>>
    /\ off = metaRead[Len(metaRead)].voff - 12

\* The sum cursor + len overflowed under overflow-checks: the reader panicked
C20_WitnessPanic == pc = "panic" /\ target.overflow_checks

\* A main-dataset element declaring 0xFFFFFFF0 bytes passed the bounds check
\* without overflow-checks, and the slice panicked
C20_WitnessSlice ==
    pc = "panic" /\ ~target.overflow_checks /\ Len(metaRead) = 1 /\ Len(walked) = 1

(***************************************************************************)
(* C16, C17: normalize_tag                                                 *)
(***************************************************************************)

\* The positions of x that hold no white space
Inked(x) == { i \in 1..Len(x) : x[i] \notin {9, 10, 11, 12, 13, 32} }

First(S) == CHOOSE i \in S : \A j \in S : i <= j

Last(S) == CHOOSE i \in S : \A j \in S : j <= i

\* x without its outer white space is "(" .. "," .. ")"
InParenForm(x) ==
    /\ Inked(x) # {}
    /\ x[First(Inked(x))] = 40
    /\ x[Last(Inked(x))] = 41
    /\ \E i \in 1..Len(x) : x[i] = 44

\* The hex-digit characters of x in order, in upper case: 0-9, A-F, a-f
RECURSIVE DigitsOf(_)
DigitsOf(x) ==
    IF x = <<>> THEN <<>>
    ELSE LET c == Head(x)
         IN  IF c \in 48..57 \cup 65..70 THEN <<c>> \o DigitsOf(Tail(x))
             ELSE IF c \in 97..102 THEN <<c - 32>> \o DigitsOf(Tail(x))
             ELSE DigitsOf(Tail(x))

\* "(GGGG,EEEE)" from 8 digits
Canonical(d) == << 40, d[1], d[2], d[3], d[4], 44, d[5], d[6], d[7], d[8], 41 >>

\* x from its first to its last character that is not white space
Inner(x) == IF Inked(x) = {} THEN <<>> ELSE SubSeq(x, First(Inked(x)), Last(Inked(x)))

\* C16: normalize_tag is idempotent: normalize_tag(normalize_tag(x)) is
\* normalize_tag(x) for every x, whether x is kept verbatim in its
\* parenthesised form, reformatted from exactly 8 hex digits, or returned
\* trimmed.
C16_Idempotent ==
    pc = "renormalized" =>
        /\ Unwrap(ret) = Unwrap(got)
        /\ Unwrap(got) = IF InParenForm(buf) THEN Inner(buf)
                         ELSE IF Len(DigitsOf(buf)) = 8 THEN Canonical(DigitsOf(buf))
                         ELSE Inner(buf)

\* Reformatted from 8 hex digits, then normalised again
C16_Witness ==
    /\ pc = "renormalized"
    /\ ~InParenForm(buf)
    /\ Len(DigitsOf(buf)) = 8
    /\ Len(buf) >= 13
    /\ IsWhitespace(buf[1]) /\ IsWhitespace(buf[2])

\* Kept verbatim in parenthesised form, with lower-case digits, then
\* normalised again
C16_WitnessVerbatim ==
    /\ pc = "renormalized"
    /\ InParenForm(buf)
    /\ \E i \in 1..Len(Unwrap(ret)) : Unwrap(ret)[i] \in 97..102
    /\ Len(Unwrap(ret)) < Len(buf)

\* Returned trimmed (neither form), then normalised again
C16_WitnessTrimmed ==
    /\ pc = "renormalized"
    /\ ~InParenForm(buf)
    /\ Len(DigitsOf(buf)) # 8
    /\ Unwrap(ret) # <<>>
    /\ Len(Unwrap(ret)) + 4 = Len(buf)

\* C17: for every input that is not in the parenthesised form and whose
\* hex-digit characters number exactly 8, normalize_tag returns "(GGGG,EEEE)"
\* built from those digits in upper case; inputs that differ only in
\* punctuation or letter case normalise to the same string.
C17_EightDigitsCanonical ==
    (pc = "normalized" /\ ~InParenForm(buf) /\ Len(DigitsOf(buf)) = 8) =>
        Unwrap(got) = Canonical(DigitsOf(buf))

\* "7fE0" "-" "abCD" between white space gave "(7FE0,ABCD)"
C17_Witness ==
    /\ pc = "normalized"
    /\ ~InParenForm(buf)
    /\ \E i \in 1..Len(buf) : buf[i] = 45
    /\ \E i \in 1..Len(buf) : buf[i] = 102
    /\ Unwrap(got) = <<40, 55,70,69,48, 44, 65,66,67,68, 41>>

\* A keyword with exactly 8 hex-digit characters gave a tag string
C17_WitnessKeyword ==
    /\ pc = "normalized"
    /\ Inner(buf) = A_MediaStorageSOPClassUID.keyword
    /\ Unwrap(got) = <<40, 69,68,65,65, 44, 69,67,65,68, 41>>

(***************************************************************************)
(* C18: the widths of the element header                                   *)
(***************************************************************************)

\* The 16-bit word at bytes o + i, o + i + 1 (counted from 0) of buf, in the
\* byte order in force
WordAt(o, i) ==
    IF ts.endian = "Little" THEN buf[o + i + 1] + 256 * buf[o + i + 2]
    ELSE 256 * buf[o + i + 1] + buf[o + i + 2]

\* The 32-bit word at bytes o + i .. o + i + 3, as <<high half, low half>>
LongAt(o, i) ==
    IF ts.endian = "Little" THEN << WordAt(o, i + 2), WordAt(o, i) >>
    ELSE << WordAt(o, i), WordAt(o, i + 2) >>

\* C18: read_elem_header, when it succeeds, returns the group and element
\* read in the supplied byte order and moves the cursor by exactly 8 bytes in
\* Implicit mode (32-bit length, no vr), by exactly 12 bytes in Explicit mode
\* when the 2-byte VR is one of OB, OW, OF, SQ, UT, UN (2 reserved bytes
\* skipped, 32-bit length), and by exactly 8 bytes in Explicit mode for every
\* other VR (16-bit length, zero-extended).
C18_HeaderWidths ==
    pc = "some" =>
        LET o == Unwrap(got)
            h == walked[1]
            vr == << buf[o + 5], buf[o + 6] >>
        IN  /\ h.group = WordAt(o, 0)
            /\ h.element = WordAt(o, 2)
            /\ IF ts.vr_mode = "Implicit"
               THEN off = o + 8 /\ h.vr = None /\ h.len = LongAt(o, 4)
               ELSE IF vr \in { <<79,66>>, <<79,87>>, <<79,70>>, <<83,81>>,
                                <<85,84>>, <<85,78>> }
               THEN off = o + 12 /\ h.vr = Some(vr) /\ h.len = LongAt(o, 8)
               ELSE off = o + 8 /\ h.vr = Some(vr) /\ h.len = << 0, WordAt(o, 6) >>

\* A long header read in Explicit VR Big Endian from a cursor inside the buffer
C18_Witness ==
    /\ pc = "some"
    /\ ts = TransferSyntax("Big", "Explicit")
    /\ Unwrap(got) >= 1
    /\ off = Unwrap(got) + 12
    /\ walked[1].vr = Some(<<85,84>>)
    /\ walked[1].group = 57471
    /\ walked[1].len = << 65279, 65535 >>

\* A short header in Explicit VR Little Endian, with a VR that is long in the
\* standard but not in the code's list
C18_WitnessShort ==
    /\ pc = "some"
    /\ ts = TransferSyntax("Little", "Explicit")
    /\ off = Unwrap(got) + 8
    /\ walked[1].vr = Some(<<79,68>>)
    /\ walked[1].len = << 0, 513 >>

\* An Implicit VR header whose length field holds the letters "OB"
C18_WitnessImplicit ==
    /\ pc = "some"
    /\ ts.vr_mode = "Implicit"
    /\ off = Unwrap(got) + 8
    /\ walked[1].vr = None
    /\ walked[1].len = << 513, 16975 >>

\* The header is cut short: absent
C18_WitnessNone == pc = "none" /\ Len(buf) - Unwrap(got) = 11

(***************************************************************************)
(* C19: the two states of the reader, InFileMeta (pc = "meta") and         *)
(* InMainDataset (pc = "main")                                             *)
(***************************************************************************)

\* The group of the header at the cursor, read as File Meta is read
\* (Little Endian), when the 8 bytes of a header are there
GroupAtCursor == buf[off + 1] + 256 * buf[off + 2]

\* A whole header in Explicit VR lies at the cursor: 8 bytes, 12 for a long VR
HeaderAtCursor ==
    /\ off + 8 <= Len(buf)
    /\ << buf[off + 5], buf[off + 6] >>
           \in { <<79,66>>, <<79,87>>, <<79,70>>, <<83,81>>, <<85,84>>, <<85,78>> }
         => off + 12 <= Len(buf)

\* The step from InFileMeta to InMainDataset is taken on a header outside
\* group 0x0002, the cursor staying at the first byte of that header; the
\* first main-loop iteration reads its header from that byte; InFileMeta is
\* never entered again
OnOtherGroup ==
    /\ (pc = "meta" /\ pc' = "main") =>
            /\ off' = off
            /\ HeaderAtCursor
            /\ GroupAtCursor # 2
            /\ ts' = resolve_ts
    /\ (pc = "meta" /\ HeaderAtCursor /\ GroupAtCursor # 2) => pc' = "main"
    /\ (pc = "main" /\ walked = <<>> /\ walked' # <<>>) =>
            /\ walked'[1].voff - off \in {8, 12}
            /\ walked'[1].group = GroupAtCursor
    /\ pc \in {"main", "done"} => pc' # "meta"
    /\ pc' = "main" => pc \in {"meta", "main"}

\* The bytes end right after the last group-0x0002 element: the step to
\* InMainDataset is taken all the same
OnEndOfBuffer ==
    (pc = "meta" /\ Len(metaRead) >= 1 /\ off = Len(buf)) => pc' = "main"

\* C19: the reader moves from InFileMeta to InMainDataset exactly once, on the
\* first header whose group is not 0x0002 or on end of buffer, and never
\* returns to InFileMeta; the header that triggers the step is read again
\* from its first byte under the negotiated transfer syntax; a file whose
\* bytes end right after the last group-0x0002 element still completes the
\* step rather than being treated as a failure.
C19_MetaToMain == [][OnOtherGroup /\ OnEndOfBuffer]_vars

\* The part of C19 about a header outside group 0x0002
C19_OnOtherGroup == [][OnOtherGroup]_vars

\* The bytes ended right after a group-0x0002 element and read_dicom
\* returned through the failure arm of parse_file_meta
C19_Witness ==
    /\ pc = "done"
    /\ site = "file meta"
    /\ Len(metaRead) >= 1
    /\ off = Len(buf)
    /\ off = metaRead[Len(metaRead)].voff + AsUsize(metaRead[Len(metaRead)].len)

\* The step was taken on a header outside group 0x0002 after two File-Meta
\* elements, and the main loop consumed that header
C19_WitnessOtherGroup ==
    /\ pc = "main"
    /\ Len(metaRead) = 2
    /\ Len(walked) = 1
    /\ walked[1].voff = metaRead[2].voff + AsUsize(metaRead[2].len) + 8

(***************************************************************************)
(* C21: the Dataset under construction is only appended to, and its        *)
(* pixel-data slot is assigned once                                        *)
(***************************************************************************)

\* A step leaves file_meta alone and leaves data_elements alone or appends
\* one element to it
AppendOnly ==
    LET old == ds.data_elements
        new == ds'.data_elements
    IN  /\ ds'.file_meta = ds.file_meta
        /\ Len(new) \in { Len(old), Len(old) + 1 }
        /\ SubSeq(new, 1, Len(old)) = old

\* A step leaves a pixel-data slot that is set as it is
PixelOnce == IsSome(ds.pixel_data) => ds'.pixel_data = ds.pixel_data

\* A step that changes the Dataset appends one element, or sets the
\* pixel-data slot, or both (the pixel-data arm)
OnlyTheseMutations ==
    ds' # ds =>
        \/ Len(ds'.data_elements) = Len(ds.data_elements) + 1
        \/ ds'.pixel_data # ds.pixel_data

\* C21: during one parse the Dataset is mutated only by appending elements
\* and by a single pixel-data assignment: elements already appended are never
\* changed, removed or reordered, and the pixel-data slot, once set, is not
\* assigned again, for any element stream, also one with more than one
\* (7FE0,0010) element.
C21_AppendAndSinglePixel == [][AppendOnly /\ OnlyTheseMutations /\ PixelOnce]_vars

\* The part of C21 about the elements
C21_AppendOnly == [][AppendOnly /\ OnlyTheseMutations]_vars

\* Two (7FE0,0010) elements with different bytes were consumed: the slot holds
\* the bytes of the second
C21_Witness ==
    /\ Len(walked) >= 2
    /\ IsPixelTag(walked[1])
    /\ IsPixelTag(walked[2])
    /\ ValueOf(walked[1]) # ValueOf(walked[2])
    /\ ValueOf(walked[1]) # <<>>
    /\ ds.pixel_data = Some(ValueOf(walked[2]))

\* Three elements were appended one after the other around a pixel-data
\* element, and the read returned them
C21_WitnessAppend ==
    /\ pc = "done"
    /\ Len(walked) = 3
    /\ IsPixelTag(walked[2])
    /\ ~IsPixelTag(walked[1]) /\ ~IsPixelTag(walked[3])
    /\ Len(Unwrap(ret).data_elements) = 3

=============================================================================
